---- MODULE Spec2Model ----
(***************************************************************************)
(* Dart <-> TaskMaster synchronisation: the connector (mcp-connector.js),  *)
(* the MCP tool handlers (mcp-server.js) and the TaskMaster poll listener  *)
(* (taskmaster-listener.js), as one Node.js process.  Every handler runs   *)
(* to its next await of real I/O (file read, file write, HTTP fetch) in    *)
(* one step; the I/O completes in a later step, so calls interleave at     *)
(* exactly the places where the event loop lets them.                      *)
(*                                                                         *)
(* Spec          the connector under the two tools                         *)
(* SpecCalls     the connector under repeated, rejected and failing calls  *)
(* SpecIntake    the connector under calls that overlap pending ones       *)
(* SpecListener  the connector under changes from Dart and the poll timer  *)
(* SpecReducers  the reducers of the local store                           *)
(* SpecDiff      the change detector on pairs of snapshots                 *)
(* SpecPoll      the listener under local authoring of tasks.json          *)
(* SpecOutage    the listener while tasks.json is missing or unreadable    *)
(* SpecEntry     one call of an entry point with an arbitrary object       *)
(* SpecCache     the idempotency cache filled to its limit                 *)
(* SpecIds       the message ids of envelopes with '-' in their fields     *)
(* SpecOverlap   poll cycles that the timer starts while others run        *)
(* SpecStop      the listener while the integration is stopped             *)
(* SpecWebhook   requests to the webhook server, signed or not             *)
(* SpecConfig    get_config under the environments of the process          *)
(***************************************************************************)
EXTENDS Integers, Sequences, FiniteSets, TLC

VARIABLES
    processedMessages,  \* the connector's Set of message ids, in insertion order
    tasksFile,          \* tasks.json: [exists, tasks]
    inflight,           \* engine calls waiting for I/O
    returned,           \* how the engine call that settled last ended
    calls,              \* number of engine calls made so far
    now,                \* the clock read by new Date()
    dartRequests,       \* HTTP requests issued to the Dart API, in order
    lastKnownTasks,     \* the listener's last snapshot: [known, tasks]
    cycles,             \* checkForChanges runs waiting for I/O, oldest first
    dartApplied,        \* history: task records that sendDartToTaskMaster wrote or removed
    detected,           \* history: the last call of detectChanges and what it returned
    edits,              \* history: number of times TaskMaster has rewritten tasks.json
    env,                \* process.env, read when the modules are loaded
    services,           \* index.js: the three handles, the listener's timer, stop()
    webhook,            \* the webhook server's last request and its answer
    shownConfig         \* what get_config returned last

\* the process around the connector and the listener
hostVars == <<env, services, webhook, shownConfig>>

vars == <<processedMessages, tasksFile, inflight, returned, calls, now,
          dartRequests, lastKnownTasks, cycles, dartApplied, detected, edits,
          env, services, webhook, shownConfig>>

----------------------------------------------------------------------------
(* Bounds of the model *)

MaxCalls == 2
MaxTime == 2
MaxCycles == 1
MaxInserts == 1002
MaxResubmits == 1
MaxTasks == 2
MaxEdits == 2
MaxOverlap == 2
MaxStops == 2

----------------------------------------------------------------------------
(* JavaScript values *)

Undefined == "<undefined>"

Has(r, k) == k \in DOMAIN r

Get(r, k) == IF k \in DOMAIN r THEN r[k] ELSE Undefined

\* Values that are no strings are written as strings in angle brackets:
\* undefined, the numbers 0 and 42, and what a property read finds on
\* Object.prototype.
Number0 == "<0>"

Number42 == "<42>"

\* the properties that every object literal inherits
ObjectPrototype ==
    {"constructor", "toString", "toLocaleString", "valueOf", "hasOwnProperty",
     "isPrototypeOf", "propertyIsEnumerable", "__proto__"}

Inherited(k) == "<Object.prototype." \o k \o ">"

\* the inherited methods; __proto__ is the prototype object itself
IsFunction(v) == v \in {Inherited(k) : k \in ObjectPrototype \ {"__proto__"}}

\* typeof v === 'string'
IsString(v) ==
    v \notin {Undefined, Number0, Number42} \cup {Inherited(k) : k \in ObjectPrototype}

\* `${v}`
TemplateString(v) ==
    CASE v = Number0  -> "0"
      [] v = Number42 -> "42"
      [] OTHER        -> v

\* truthiness
Truthy(v) == v \notin {Undefined, "", Number0}

\* { ...a, ...b }
Spread(a, b) ==
    [k \in (DOMAIN a) \cup (DOMAIN b) |-> IF k \in DOMAIN b THEN b[k] ELSE a[k]]

NoFields == [k \in {} |-> Undefined]

\* payload.metadata, or nothing to spread when it is undefined
MetadataOf(r) == IF Has(r, "metadata") THEN r.metadata ELSE NoFields

\* new Date().toISOString()
toISOString(t) == "2024-01-01T00:00:0" \o ToString(t) \o "Z"

----------------------------------------------------------------------------
(* mcp-connector.js *)

\* the settings that no call path reads
config == [timeout |-> 5000, maxRetries |-> 1]

CacheLimit == 1000

validateMessage(message) ==
    /\ Truthy(Get(message, "source"))
    /\ message.source \in {"Dart", "TaskMaster"}
    /\ Truthy(Get(message, "task_id"))
    /\ Truthy(Get(message, "update_type"))
    /\ message.update_type \in {"create", "update", "complete", "delete"}
    /\ Truthy(Get(message, "timestamp"))
    /\ Has(message, "payload")
    /\ Truthy(Get(message.payload, "status"))

\* the message id with the update type in it
messageId_WithUpdateType(message) ==
    TemplateString(message.source) \o "-" \o TemplateString(message.task_id)
        \o "-" \o TemplateString(message.timestamp)
        \o "-" \o TemplateString(message.update_type)

messageId(message) ==
    TemplateString(message.source) \o "-" \o TemplateString(message.task_id)
        \o "-" \o TemplateString(message.timestamp)

SetHas(set, v) == \E i \in 1..Len(set) : set[i] = v

\* Set.prototype.add: appends unless present
SetAdd(set, v) == IF SetHas(set, v) THEN set ELSE Append(set, v)

\* isMessageProcessed without processedMessages.add
isMessageProcessed_NeverAdds(cache, message) ==
    [seen |-> SetHas(cache, messageId(message)), cache |-> cache]

\* isMessageProcessed deleting the newest of the older ids, not the oldest
isMessageProcessed_EvictsNewest(cache, message) ==
    IF SetHas(cache, messageId(message))
    THEN [seen |-> TRUE, cache |-> cache]
    ELSE LET added == SetAdd(cache, messageId(message))
         IN  [seen |-> FALSE,
              cache |-> IF Len(added) > CacheLimit
                        THEN Append(SubSeq(cache, 1, Len(cache) - 1), messageId(message))
                        ELSE added]

\* isMessageProcessed moving an id that it finds to the newest place
isMessageProcessed_RefreshesOnHit(cache, message) ==
    IF SetHas(cache, messageId(message))
    THEN LET IsOther(id) == id # messageId(message)
         IN  [seen |-> TRUE,
              cache |-> Append(SelectSeq(cache, IsOther), messageId(message))]
    ELSE LET added == SetAdd(cache, messageId(message))
         IN  [seen |-> FALSE,
              cache |-> IF Len(added) > CacheLimit THEN Tail(added) ELSE added]

\* isMessageProcessed without the limit on the size of the cache
isMessageProcessed_NoEviction(cache, message) ==
    IF SetHas(cache, messageId(message))
    THEN [seen |-> TRUE, cache |-> cache]
    ELSE [seen |-> FALSE, cache |-> SetAdd(cache, messageId(message))]

\* returns whether the message was seen, and the cache afterwards
isMessageProcessed(cache, message) ==
    IF SetHas(cache, messageId(message))
    THEN [seen |-> TRUE, cache |-> cache]
    ELSE LET added == SetAdd(cache, messageId(message))
         IN  [seen |-> FALSE,
              cache |-> IF Len(added) > CacheLimit THEN Tail(added) ELSE added]

\* mapDartStatusToTaskMaster with 'done' for its default
mapDartStatusToTaskMaster_DefaultsToDone(dartStatus) ==
    CASE dartStatus = "To-do"           -> "pending"
      [] dartStatus = "Doing"           -> "in-progress"
      [] dartStatus = "Done"            -> "done"
      [] dartStatus \in ObjectPrototype -> Inherited(dartStatus)
      [] OTHER                          -> "done"

\* statusMap[dartStatus] || 'pending': the property read goes on to
\* Object.prototype when statusMap has no such key of its own
mapDartStatusToTaskMaster(dartStatus) ==
    CASE dartStatus = "To-do"           -> "pending"
      [] dartStatus = "Doing"           -> "in-progress"
      [] dartStatus = "Done"            -> "done"
      [] dartStatus \in ObjectPrototype -> Inherited(dartStatus)
      [] OTHER                          -> "pending"

\* statusMap[taskMasterStatus] || 'To-do'
mapTaskMasterStatusToDart(taskMasterStatus) ==
    CASE taskMasterStatus = "pending"         -> "To-do"
      [] taskMasterStatus = "in-progress"     -> "Doing"
      [] taskMasterStatus = "done"            -> "Done"
      [] taskMasterStatus \in ObjectPrototype -> Inherited(taskMasterStatus)
      [] OTHER                                -> "To-do"

\* tasks.findIndex(task => task.metadata && task.metadata.dartId === task_id);
\* 0 stands for -1
findIndexByDartId(tasks, task_id) ==
    LET hits == {i \in 1..Len(tasks) :
                    /\ Has(tasks[i], "metadata")
                    /\ Get(tasks[i].metadata, "dartId") = task_id}
    IN  IF hits = {} THEN 0 ELSE CHOOSE i \in hits : \A j \in hits : i <= j

\* The reducers return what they hand to saveTaskMasterTasks (save = TRUE) or
\* that they returned without saving.

createTaskInTaskMaster(message, tasks) ==
    LET newTaskId == Len(tasks) + 1
        newTask == [
            id |-> newTaskId,
            title |-> IF Truthy(Get(message.payload, "title"))
                      THEN message.payload.title
                      ELSE "Task from Dart: " \o TemplateString(message.task_id),
            description |-> IF Truthy(Get(message.payload, "description"))
                            THEN message.payload.description ELSE "",
            status |-> mapDartStatusToTaskMaster(message.payload.status),
            priority |-> IF Truthy(Get(message.payload, "priority"))
                         THEN message.payload.priority ELSE "medium",
            dependencies |-> <<>>,
            details |-> "",
            testStrategy |-> "",
            subtasks |-> <<>>,
            metadata |-> Spread([dartId |-> message.task_id],
                                MetadataOf(message.payload))]
    IN  [save |-> TRUE, tasks |-> Append(tasks, newTask)]

updateTaskInTaskMaster(message, tasks) ==
    LET taskIndex == findIndexByDartId(tasks, message.task_id)
    IN  IF taskIndex = 0
        THEN createTaskInTaskMaster(message, tasks)
        ELSE LET task == tasks[taskIndex]
                 p == message.payload
                 updated == [task EXCEPT
                     !.title = IF Truthy(Get(p, "title")) THEN p.title ELSE @,
                     !.description = IF Truthy(Get(p, "description"))
                                     THEN p.description ELSE @,
                     !.status = IF Truthy(Get(p, "status"))
                                THEN mapDartStatusToTaskMaster(p.status) ELSE @,
                     !.priority = IF Truthy(Get(p, "priority"))
                                  THEN p.priority ELSE @,
                     !.metadata = Spread(Spread(@, MetadataOf(p)),
                                         [lastUpdated |-> message.timestamp])]
             IN  [save |-> TRUE, tasks |-> [tasks EXCEPT ![taskIndex] = updated]]

\* completeTaskInTaskMaster falling back to create, as update does
completeTaskInTaskMaster_CreatesUnknown(message, tasks) ==
    LET taskIndex == findIndexByDartId(tasks, message.task_id)
    IN  IF taskIndex = 0
        THEN createTaskInTaskMaster(message, tasks)
        ELSE [save |-> TRUE,
              tasks |-> [tasks EXCEPT
                  ![taskIndex].status = "done",
                  ![taskIndex].metadata =
                      Spread(@, [completedAt |-> message.timestamp,
                                 lastUpdated |-> message.timestamp])]]

completeTaskInTaskMaster(message, tasks) ==
    LET taskIndex == findIndexByDartId(tasks, message.task_id)
    IN  IF taskIndex = 0
        THEN [save |-> FALSE, tasks |-> tasks]
        ELSE [save |-> TRUE,
              tasks |-> [tasks EXCEPT
                  ![taskIndex].status = "done",
                  ![taskIndex].metadata =
                      Spread(@, [completedAt |-> message.timestamp,
                                 lastUpdated |-> message.timestamp])]]

\* deleteTaskInTaskMaster with tasks.splice(taskIndex), which removes the
\* record and all that follow it
deleteTaskInTaskMaster_RemovesRest(message, tasks) ==
    LET taskIndex == findIndexByDartId(tasks, message.task_id)
    IN  IF taskIndex = 0
        THEN [save |-> FALSE, tasks |-> tasks]
        ELSE [save |-> TRUE, tasks |-> SubSeq(tasks, 1, taskIndex - 1)]

\* tasks.splice(taskIndex, 1)
deleteTaskInTaskMaster(message, tasks) ==
    LET taskIndex == findIndexByDartId(tasks, message.task_id)
    IN  IF taskIndex = 0
        THEN [save |-> FALSE, tasks |-> tasks]
        ELSE [save |-> TRUE,
              tasks |-> SubSeq(tasks, 1, taskIndex - 1)
                        \o SubSeq(tasks, taskIndex + 1, Len(tasks))]

\* one own property of an object literal; JSON.stringify drops undefined
\* and functions
Field(k, v) == IF v = Undefined \/ IsFunction(v) THEN NoFields ELSE [x \in {k} |-> v]

NoRequest == [method |-> "", id |-> "", body |-> NoFields]

\* The Dart reducers return the request they hand to fetch (fetch = TRUE) or
\* that they returned without calling the API.

createTaskInDart(message) ==
    LET p == message.payload
        taskData == Spread(Spread(Spread(
                        Field("title", Get(p, "title")),
                        Field("description", Get(p, "description"))),
                        Field("status", mapTaskMasterStatusToDart(p.status))),
                        Field("priority", Get(p, "priority")))
    IN  [fetch |-> TRUE,
         request |-> [method |-> "POST", id |-> "", body |-> taskData]]

updateTaskInDart(message) ==
    LET p == message.payload
        dartTaskId == Get(MetadataOf(p), "dartId")
        taskData == Spread(Spread(Spread(
                        IF Truthy(Get(p, "title"))
                        THEN [title |-> p.title] ELSE NoFields,
                        IF Truthy(Get(p, "description"))
                        THEN [description |-> p.description] ELSE NoFields),
                        IF Truthy(Get(p, "status"))
                        THEN Field("status", mapTaskMasterStatusToDart(p.status))
                        ELSE NoFields),
                        IF Truthy(Get(p, "priority"))
                        THEN [priority |-> p.priority] ELSE NoFields)
    IN  IF ~Truthy(dartTaskId)
        THEN createTaskInDart(message)
        ELSE [fetch |-> TRUE,
              request |-> [method |-> "PATCH", id |-> dartTaskId, body |-> taskData]]

\* completeTaskInDart falling back to create, as updateTaskInDart does
completeTaskInDart_CreatesUnlinked(message) ==
    LET dartTaskId == Get(MetadataOf(message.payload), "dartId")
    IN  IF ~Truthy(dartTaskId)
        THEN createTaskInDart(message)
        ELSE [fetch |-> TRUE,
              request |-> [method |-> "PATCH", id |-> dartTaskId,
                           body |-> [status |-> "Done"]]]

completeTaskInDart(message) ==
    LET dartTaskId == Get(MetadataOf(message.payload), "dartId")
    IN  IF ~Truthy(dartTaskId)
        THEN [fetch |-> FALSE, request |-> NoRequest]
        ELSE [fetch |-> TRUE,
              request |-> [method |-> "PATCH", id |-> dartTaskId,
                           body |-> [status |-> "Done"]]]

deleteTaskInDart(message) ==
    LET dartTaskId == Get(MetadataOf(message.payload), "dartId")
    IN  IF ~Truthy(dartTaskId)
        THEN [fetch |-> FALSE, request |-> NoRequest]
        ELSE [fetch |-> TRUE,
              request |-> [method |-> "DELETE", id |-> dartTaskId, body |-> NoFields]]

\* The head of both entry points: validate, then the idempotency check.
\* outcome "proceed" means the switch is reached.

\* the head of sendDartToTaskMaster with the idempotency check ahead of
\* the validation
sendDartToTaskMasterEnter_ChecksFirst(cache, message) ==
    LET chk == isMessageProcessed(cache, message)
    IN  IF chk.seen
        THEN [outcome |-> "skipped", error |-> "", cache |-> chk.cache]
        ELSE IF ~validateMessage(message)
        THEN [outcome |-> "error", error |-> "Invalid message format", cache |-> chk.cache]
        ELSE [outcome |-> "proceed", error |-> "", cache |-> chk.cache]

sendDartToTaskMasterEnter(cache, message) ==
    IF ~validateMessage(message)
    THEN [outcome |-> "error", error |-> "Invalid message format", cache |-> cache]
    ELSE LET chk == isMessageProcessed(cache, message)
         IN  IF chk.seen
             THEN [outcome |-> "skipped", error |-> "", cache |-> chk.cache]
             ELSE [outcome |-> "proceed", error |-> "", cache |-> chk.cache]

sendTaskMasterToDartEnter(cache, message) ==
    IF ~validateMessage(message)
    THEN [outcome |-> "error", error |-> "Invalid message format", cache |-> cache]
    ELSE LET chk == isMessageProcessed(cache, message)
         IN  IF chk.seen
             THEN [outcome |-> "skipped", error |-> "", cache |-> chk.cache]
             ELSE [outcome |-> "proceed", error |-> "", cache |-> chk.cache]

\* the switch of sendDartToTaskMaster, on the tasks loaded from the file
sendDartToTaskMasterSwitch(message, tasks) ==
    CASE message.update_type = "create"   -> createTaskInTaskMaster(message, tasks)
      [] message.update_type = "update"   -> updateTaskInTaskMaster(message, tasks)
      [] message.update_type = "complete" -> completeTaskInTaskMaster(message, tasks)
      [] message.update_type = "delete"   -> deleteTaskInTaskMaster(message, tasks)

\* the switch of sendTaskMasterToDart
sendTaskMasterToDartSwitch(message) ==
    CASE message.update_type = "create"   -> createTaskInDart(message)
      [] message.update_type = "update"   -> updateTaskInDart(message)
      [] message.update_type = "complete" -> completeTaskInDart(message)
      [] message.update_type = "delete"   -> deleteTaskInDart(message)

\* a catch block that returns { success: false, error }
sendDartToTaskMasterCatch_Returns(error) == [outcome |-> "failure", error |-> error]

\* the catch blocks of the entry points: log, then throw error
sendDartToTaskMasterCatch(error) == [outcome |-> "thrown", error |-> error]

sendTaskMasterToDartCatch(error) == [outcome |-> "thrown", error |-> error]

\* return { success: true } and return { success: true, skipped: true }
Success == [outcome |-> "success", error |-> ""]

Skipped == [outcome |-> "skipped", error |-> ""]

----------------------------------------------------------------------------
(* taskmaster-listener.js *)

Range(seq) == {seq[i] : i \in 1..Len(seq)}

IdsOf(tasks) == {tasks[i].id : i \in 1..Len(tasks)}

\* The own keys of a task object in the order in which JSON.parse met them
\* in the file: a record carries the keys that come first in its "keys"
\* component, the others follow in the order of TaskKeys, which is the
\* order of the object literal in createTaskInTaskMaster and of the sample
\* tasks.json.  "keys" itself is no property of the object.  The metadata
\* object is taken to be written in the order of MetadataKeys.
TaskKeys ==
    <<"id", "title", "description", "status", "priority", "dependencies",
      "details", "testStrategy", "subtasks", "metadata">>

MetadataKeys == <<"dartId", "taskMasterId", "lastUpdated", "completedAt">>

ownKeys(obj, literalOrder) ==
    LET first == IF Has(obj, "keys") THEN obj.keys ELSE <<>>
        IsOwn(k) == k \in DOMAIN obj
        IsLater(k) == k \in DOMAIN obj /\ k \notin Range(first)
    IN  SelectSeq(first, IsOwn) \o SelectSeq(literalOrder, IsLater)

\* The text of an object is kept as the sequence of its members, key and
\* value, in the order in which they are written; the value of metadata
\* is the text of that object.
JSONmembers(obj, keys) ==
    [i \in 1..Len(keys) |->
        <<keys[i],
          IF keys[i] = "metadata"
          THEN [j \in 1..Len(ownKeys(obj.metadata, MetadataKeys)) |->
                   <<ownKeys(obj.metadata, MetadataKeys)[j],
                     obj.metadata[ownKeys(obj.metadata, MetadataKeys)[j]]>>]
          ELSE obj[keys[i]]>>]

\* JSON.stringify of a task object
JSONstringify(task) == JSONmembers(task, ownKeys(task, TaskKeys))

\* the else-if branch of detectChanges classifying by the new status alone
changeType_NewStatusOnly(oldTask, newTask) ==
    IF newTask.status = "done" THEN "complete" ELSE "update"

\* the type of the change between two unequal versions of a task
changeType(oldTask, newTask) ==
    IF oldTask.status # newTask.status /\ newTask.status = "done"
    THEN "complete"
    ELSE "update"

RECURSIVE changedTasks(_, _)
\* the first loop of detectChanges
changedTasks(oldTasks, newTasks) ==
    IF newTasks = <<>> THEN <<>>
    ELSE LET newTask == Head(newTasks)
             olds == {i \in 1..Len(oldTasks) : oldTasks[i].id = newTask.id}
             rest == changedTasks(oldTasks, Tail(newTasks))
         IN  IF olds = {}
             THEN <<[type |-> "create", task |-> newTask]>> \o rest
             ELSE LET oldTask == oldTasks[CHOOSE i \in olds : \A j \in olds : i <= j]
                  IN  IF JSONstringify(oldTask) # JSONstringify(newTask)
                      THEN <<[type |-> changeType(oldTask, newTask),
                              task |-> newTask, oldTask |-> oldTask]>> \o rest
                      ELSE rest

RECURSIVE deletedTasks(_, _)
\* the second loop of detectChanges
deletedTasks(oldTasks, newTasks) ==
    IF oldTasks = <<>> THEN <<>>
    ELSE LET oldTask == Head(oldTasks)
             rest == deletedTasks(Tail(oldTasks), newTasks)
         IN  IF \E i \in 1..Len(newTasks) : newTasks[i].id = oldTask.id
             THEN rest
             ELSE <<[type |-> "delete", task |-> oldTask]>> \o rest

\* detectChanges without its second loop
detectChanges_NoDeletes(oldTasks, newTasks) == changedTasks(oldTasks, newTasks)

\* detectChanges with its second loop ahead of the first
detectChanges_DeletesFirst(oldTasks, newTasks) ==
    deletedTasks(oldTasks, newTasks) \o changedTasks(oldTasks, newTasks)

detectChanges(oldTasks, newTasks) ==
    changedTasks(oldTasks, newTasks) \o deletedTasks(oldTasks, newTasks)

\* what is remembered of a call of detectChanges
Detected(oldTasks, newTasks) ==
    [ran |-> TRUE, oldTasks |-> oldTasks, newTasks |-> newTasks,
     changes |-> detectChanges(oldTasks, newTasks)]

NoneDetected == [ran |-> FALSE, oldTasks |-> <<>>, newTasks |-> <<>>, changes |-> <<>>]

\* processChange without its guard
processChangeSkips_Never(change) == FALSE

\* the guard of processChange: changes that are not sent
processChangeSkips(change) ==
    /\ change.type # "create"
    /\ \/ ~Has(change.task, "metadata")
       \/ ~Truthy(Get(change.task.metadata, "dartId"))

\* the message processChange builds
processChangeMessage(change, t) ==
    [source |-> "TaskMaster",
     task_id |-> ToString(change.task.id),
     update_type |-> change.type,
     timestamp |-> toISOString(t),
     payload |-> Spread(Spread(Spread(Spread(
                     Field("status", Get(change.task, "status")),
                     Field("title", Get(change.task, "title"))),
                     Field("description", Get(change.task, "description"))),
                     Field("priority", Get(change.task, "priority"))),
                     [metadata |-> Spread(MetadataOf(change.task),
                                          [taskMasterId |-> change.task.id])])]

----------------------------------------------------------------------------
(* Engine calls *)

D2T == "sendDartToTaskMaster"

T2D == "sendTaskMasterToDart"

\* how a call ended: res is Success, Skipped or what the catch block made
\* of the error; writes and requests count the call's file writes and
\* HTTP requests
Ret(n, entry, message, res, writes, requests) ==
    [n |-> n, entry |-> entry, message |-> message, outcome |-> res.outcome,
     error |-> res.error, writes |-> writes, requests |-> requests]

NoReturn ==
    [n |-> 0, entry |-> "", message |-> NoFields, outcome |-> "none",
     error |-> "", writes |-> 0, requests |-> 0]

Call(n, entry, message, pc, tasksData, origin) ==
    [n |-> n, entry |-> entry, message |-> message, pc |-> pc,
     tasksData |-> tasksData, origin |-> origin]

NoCall == Call(0, "", NoFields, "", <<>>, "")

\* the part of the state that a run of synchronous code works on
EngineState ==
    [cache |-> processedMessages, calls |-> calls, returned |-> returned,
     requests |-> dartRequests, overflow |-> FALSE, pending |-> FALSE,
     call |-> NoCall, rest |-> <<>>]

\* sendTaskMasterToDart up to its await of fetch, or to its end when it
\* does not get that far
sendTaskMasterToDart(st, message, origin, echo) ==
    LET n == st.calls + 1
        e == sendTaskMasterToDartEnter(st.cache, message)
        st1 == [st EXCEPT !.calls = n, !.cache = e.cache]
    IN  IF e.outcome = "error"
        THEN [st1 EXCEPT !.returned =
                 Ret(n, T2D, message, sendTaskMasterToDartCatch(e.error), 0, 0)]
        ELSE IF e.outcome = "skipped"
        THEN [st1 EXCEPT !.returned = Ret(n, T2D, message, Skipped, 0, 0)]
        ELSE LET r == sendTaskMasterToDartSwitch(message)
             IN  IF ~r.fetch
                 THEN [st1 EXCEPT !.returned = Ret(n, T2D, message, Success, 0, 0)]
                 ELSE [st1 EXCEPT
                          !.requests = Append(@, [n |-> n, origin |-> origin,
                                                  echo |-> echo,
                                                  request |-> r.request]),
                          !.pending = TRUE,
                          !.call = Call(n, T2D, message, "fetch", <<>>, origin)]

\* sendDartToTaskMaster up to its await of readFile in
\* loadTaskMasterTasks, or to its end when it does not get that far
sendDartToTaskMaster(st, message, origin) ==
    LET n == st.calls + 1
        e == sendDartToTaskMasterEnter(st.cache, message)
        st1 == [st EXCEPT !.calls = n, !.cache = e.cache]
    IN  IF e.outcome = "error"
        THEN [st1 EXCEPT !.returned =
                 Ret(n, D2T, message, sendDartToTaskMasterCatch(e.error), 0, 0)]
        ELSE IF e.outcome = "skipped"
        THEN [st1 EXCEPT !.returned = Ret(n, D2T, message, Skipped, 0, 0)]
        ELSE [st1 EXCEPT !.pending = TRUE,
                         !.call = Call(n, D2T, message, "load", <<>>, origin)]

RECURSIVE processChanges(_, _, _)
\* the for loop of checkForChanges over the changes not yet processed,
\* up to the first await of a fetch; rest is what is left after it
processChanges(changes, st, echoed) ==
    IF changes = <<>> THEN st
    ELSE LET change == Head(changes)
         IN  IF processChangeSkips(change)
             THEN processChanges(Tail(changes), st, echoed)
             ELSE IF st.calls >= MaxCalls
             THEN [st EXCEPT !.overflow = TRUE]
             ELSE LET st1 == sendTaskMasterToDart(st,
                                 processChangeMessage(change, now), "poll",
                                 change.task \in echoed)
                  IN  IF st1.pending
                      THEN [st1 EXCEPT !.rest = Tail(changes)]
                      ELSE processChanges(Tail(changes), st1, echoed)

----------------------------------------------------------------------------
(* Inputs *)

\* payloads of the tool calls
Plain == [status |-> "To-do", title |-> "Demo"]

DoneOfX2 == [status |-> "Done", metadata |-> [dartId |-> "X2"]]

Unlinked == [status |-> "pending", title |-> "Local"]

LinkedToX1 == [status |-> "done", metadata |-> [dartId |-> "X1"]]

NoStatus == [title |-> "Demo"]

Input(task_id, update_type, payload) ==
    [task_id |-> task_id, update_type |-> update_type, payload |-> payload]

\* calls of sync_dart_to_taskmaster: X1 has a record in the larger initial
\* file, X2 has none; DoneOfX2 carries a dartId of its own; the last call
\* is invalid
DartInputs ==
    {Input("X1", "create", Plain), Input("X1", "create", DoneOfX2),
     Input("X2", "create", DoneOfX2), Input("X1", "update", Plain),
     Input("X1", "complete", DoneOfX2), Input("X1", "delete", Plain),
     Input("X1", "create", NoStatus)}

\* calls of sync_taskmaster_to_dart, with and without a dartId in the
\* metadata; the last call is invalid
TaskMasterInputs ==
    {Input("1", "create", Unlinked), Input("1", "update", Unlinked),
     Input("1", "update", LinkedToX1), Input("1", "complete", Unlinked),
     Input("1", "complete", LinkedToX1), Input("1", "delete", Unlinked),
     Input("1", "delete", LinkedToX1), Input("1", "update", NoStatus)}

IoResults == {"ok", "fail"}

HttpStatuses == {200, 204, 500}

\* response.ok
ResponseOk(status) == status \in 200..299

\* a task that came from Dart, and a task authored in TaskMaster
DartTask(id, dartId) ==
    [id |-> id, title |-> "Task " \o dartId, description |-> "",
     status |-> "pending", priority |-> "medium", dependencies |-> <<>>,
     details |-> "", testStrategy |-> "", subtasks |-> <<>>,
     metadata |-> [dartId |-> dartId]]

LocalTask(id) ==
    [id |-> id, title |-> "Local task", description |-> "",
     status |-> "pending", priority |-> "high", dependencies |-> <<>>,
     details |-> "", testStrategy |-> "", subtasks |-> <<>>]

InitialFiles ==
    {[exists |-> FALSE, tasks |-> <<>>],
     [exists |-> TRUE, tasks |-> <<>>],
     [exists |-> TRUE, tasks |-> <<DartTask(1, "X1"), LocalTask(2)>>]}

----------------------------------------------------------------------------
(* The process around the connector: index.js, the webhook server, get_config *)

Null == "<null>"

\* a || b
OrElse(a, b) == IF Truthy(a) THEN a ELSE b

\* process.env where the connector's behaviour does not depend on it
Environment ==
    [DART_API_KEY |-> "key-1", DART_API_URL |-> Undefined, TASKS_PATH |-> Undefined,
     LOG_LEVEL |-> Undefined, DART_WEBHOOK_SECRET |-> Undefined]

\* the config object of mcp-connector.js, which initMCPConnector hands out
connectorConfig(e) ==
    Spread(config,
           [tasksPath |-> OrElse(e.TASKS_PATH, "<cwd>/tasks/tasks.json"),
            dart |-> [apiKey |-> e.DART_API_KEY,
                      baseUrl |-> OrElse(e.DART_API_URL, "https://api.itsdart.com/api")],
            logLevel |-> OrElse(e.LOG_LEVEL, "info")])

\* the handler of get_config handing out the key as it is
getConfigHandler_ShowsKey(e) ==
    [success |-> TRUE, config |-> connectorConfig(e)]

\* the handler of the tool get_config
getConfigHandler(e) ==
    LET c == connectorConfig(e)
    IN  [success |-> TRUE,
         config |-> Spread(c, [dart |-> Spread(c.dart,
                        [apiKey |-> IF Truthy(c.dart.apiKey) THEN "***" ELSE Undefined])])]

\* index.js after start(): the three handles are set and the listener's
\* timer runs; closing counts the stop() calls that await server.close(),
\* stops and returned count the stop() calls made and those that returned
Started ==
    [taskMasterListener |-> "listener", webhookServer |-> "server",
     mcpServer |-> "server", intervalId |-> "set",
     stops |-> 0, closing |-> 0, returned |-> 0]

NoWebhook == [signature |-> Undefined, status |-> 0, call |-> 0]

InitHost ==
    /\ services = Started
    /\ webhook = NoWebhook
    /\ shownConfig = NoFields

\* the route handler of POST /webhook answers when the engine call c, which
\* it awaits, has settled: 500 if processWebhook threw, 200 otherwise
webhookAnswers(c) ==
    webhook' = IF c.origin = "webhook" /\ webhook.call = c.n /\ returned'.n = c.n
               THEN [webhook EXCEPT !.status = IF returned'.outcome = "thrown"
                                               THEN 500 ELSE 200]
               ELSE webhook

----------------------------------------------------------------------------
(* The process *)

Init ==
    /\ processedMessages = <<>>
    /\ tasksFile \in InitialFiles
    /\ inflight = {}
    /\ returned = NoReturn
    /\ calls = 0
    /\ now = 1
    /\ dartRequests = <<>>
    /\ lastKnownTasks = [known |-> FALSE, tasks |-> <<>>]
    /\ cycles = <<>>
    /\ dartApplied = {}
    /\ detected = NoneDetected
    /\ edits = 0
    /\ env = Environment
    /\ InitHost

Tick ==
    /\ now < MaxTime
    /\ now' = now + 1
    /\ UNCHANGED <<processedMessages, tasksFile, inflight, returned, calls,
                   dartRequests, lastKnownTasks, cycles, dartApplied, detected,
                   edits, hostVars>>

\* the effect of a run of synchronous engine code that started from
\* EngineState, apart from inflight and the listener's state
Settle(st) ==
    /\ ~st.overflow
    /\ processedMessages' = st.cache
    /\ calls' = st.calls
    /\ returned' = st.returned
    /\ dartRequests' = st.requests

\* sync_dart_to_taskmaster held back while a request to the Dart API is
\* pending
sync_dart_to_taskmaster_WaitsForFetch(task_id, update_type, payload) ==
    LET message == [source |-> "Dart", task_id |-> task_id,
                    update_type |-> update_type,
                    timestamp |-> toISOString(now), payload |-> payload]
        st == sendDartToTaskMaster(EngineState, message, "tool")
    IN  /\ calls < MaxCalls
        /\ services.mcpServer # Null
        /\ \A c \in inflight : c.pc # "fetch"
        /\ Settle(st)
        /\ inflight' = IF st.pending THEN inflight \cup {st.call} ELSE inflight
        /\ UNCHANGED <<tasksFile, now, lastKnownTasks, cycles, dartApplied, detected,
                       edits, hostVars>>

\* the handler of the tool sync_dart_to_taskmaster, up to the await of
\* readFile in loadTaskMasterTasks
sync_dart_to_taskmaster(task_id, update_type, payload) ==
    LET message == [source |-> "Dart", task_id |-> task_id,
                    update_type |-> update_type,
                    timestamp |-> toISOString(now), payload |-> payload]
        st == sendDartToTaskMaster(EngineState, message, "tool")
    IN  /\ calls < MaxCalls
        /\ services.mcpServer # Null
        /\ Settle(st)
        /\ inflight' = IF st.pending THEN inflight \cup {st.call} ELSE inflight
        /\ UNCHANGED <<tasksFile, now, lastKnownTasks, cycles, dartApplied, detected,
                       edits, hostVars>>

\* readFile settles: loadTaskMasterTasks returns or throws, and the switch
\* runs the reducer up to the await of writeFile
loadTaskMasterTasks(c, io) ==
    /\ c \in inflight
    /\ c.pc = "load"
    /\ IF io = "fail" \/ ~tasksFile.exists
       THEN /\ returned' = Ret(c.n, D2T, c.message,
                  sendDartToTaskMasterCatch("Failed to load TaskMaster tasks"), 0, 0)
            /\ inflight' = inflight \ {c}
       ELSE LET r == sendDartToTaskMasterSwitch(c.message, tasksFile.tasks)
            IN  IF r.save
                THEN /\ inflight' = (inflight \ {c}) \cup
                                    {[c EXCEPT !.pc = "save", !.tasksData = r.tasks]}
                     /\ UNCHANGED returned
                ELSE /\ returned' = Ret(c.n, D2T, c.message, Success, 0, 0)
                     /\ inflight' = inflight \ {c}
    /\ webhookAnswers(c)
    /\ UNCHANGED <<processedMessages, tasksFile, calls, now, dartRequests,
                   lastKnownTasks, cycles, dartApplied, detected, edits,
                   env, services, shownConfig>>

\* the records a write of newTasks over oldTasks puts into the file or
\* takes out of it
Written(oldTasks, newTasks) ==
    {t \in Range(newTasks) : t \notin Range(oldTasks)}
    \cup {t \in Range(oldTasks) : \A i \in 1..Len(newTasks) : newTasks[i].id # t.id}

\* what JSON.parse reads back after JSON.stringify(tasks, null, 2): a
\* status that is a function is not written
Stringified(tasks) ==
    [i \in 1..Len(tasks) |->
        IF Has(tasks[i], "status") /\ IsFunction(tasks[i].status)
        THEN [k \in DOMAIN tasks[i] \ {"status"} |-> tasks[i][k]]
        ELSE tasks[i]]

\* writeFile settles: saveTaskMasterTasks returns or throws, and with it
\* the reducer and sendDartToTaskMaster
saveTaskMasterTasks(c, io) ==
    /\ c \in inflight
    /\ c.pc = "save"
    /\ inflight' = inflight \ {c}
    /\ IF io = "fail"
       THEN /\ returned' = Ret(c.n, D2T, c.message,
                  sendDartToTaskMasterCatch("Failed to save TaskMaster tasks"), 0, 0)
            /\ UNCHANGED <<tasksFile, dartApplied>>
       ELSE /\ tasksFile' = [exists |-> TRUE, tasks |-> Stringified(c.tasksData)]
            /\ dartApplied' = dartApplied
                                 \cup Written(tasksFile.tasks, Stringified(c.tasksData))
            /\ returned' = Ret(c.n, D2T, c.message, Success, 1, 0)
    /\ webhookAnswers(c)
    /\ UNCHANGED <<processedMessages, calls, now, dartRequests, lastKnownTasks,
                   cycles, detected, edits, env, services, shownConfig>>

\* the handler of the tool sync_taskmaster_to_dart, up to the await of fetch
sync_taskmaster_to_dart(task_id, update_type, payload) ==
    LET message == [source |-> "TaskMaster", task_id |-> task_id,
                    update_type |-> update_type,
                    timestamp |-> toISOString(now), payload |-> payload]
        st == sendTaskMasterToDart(EngineState, message, "tool", FALSE)
    IN  /\ calls < MaxCalls
        /\ services.mcpServer # Null
        /\ Settle(st)
        /\ inflight' = IF st.pending THEN inflight \cup {st.call} ELSE inflight
        /\ UNCHANGED <<tasksFile, now, lastKnownTasks, cycles, dartApplied, detected,
                       edits, hostVars>>

RemoveAt(seq, i) == SubSeq(seq, 1, i - 1) \o SubSeq(seq, i + 1, Len(seq))

\* checkForChanges number i goes on after its changes were processed as
\* far as st tells: it waits for the fetch of st.call, or it stores its
\* snapshot and ends
CycleGoesOn(i, cy, st) ==
    IF st.pending
    THEN /\ cycles' = [cycles EXCEPT ![i] = [cy EXCEPT !.pc = "send",
                                                      !.awaiting = st.call.n,
                                                      !.rest = st.rest]]
         /\ UNCHANGED lastKnownTasks
    ELSE /\ cycles' = RemoveAt(cycles, i)
         /\ lastKnownTasks' = [known |-> TRUE, tasks |-> cy.currentTasks]

\* the interval timer calls checkForChanges, which runs up to the await of
\* readFile; setInterval does not wait for the runs it started earlier, and
\* the model lets at most limit of them be under way at once
checkForChangesWithin(limit) ==
    /\ services.intervalId = "set"
    /\ Len(cycles) < limit
    /\ IF ~tasksFile.exists
       THEN UNCHANGED cycles
       ELSE cycles' = Append(cycles, [pc |-> "read", currentTasks |-> <<>>,
                                      rest |-> <<>>, awaiting |-> 0])
    /\ UNCHANGED <<processedMessages, tasksFile, inflight, returned, calls, now,
                   dartRequests, lastKnownTasks, dartApplied, detected, edits, hostVars>>

checkForChanges == checkForChangesWithin(MaxCycles)

\* checkForChanges dropping its snapshot when the read fails
checkForChangesRead_ForgetsOnFailure(i, io) ==
    /\ i \in 1..Len(cycles)
    /\ cycles[i].pc = "read"
    /\ IF io = "fail" \/ ~tasksFile.exists
       THEN /\ cycles' = RemoveAt(cycles, i)
            /\ lastKnownTasks' = [known |-> FALSE, tasks |-> <<>>]
            /\ UNCHANGED <<processedMessages, inflight, returned, calls,
                           dartRequests, detected, edits, hostVars>>
       ELSE IF ~lastKnownTasks.known
       THEN /\ cycles' = RemoveAt(cycles, i)
            /\ lastKnownTasks' = [known |-> TRUE, tasks |-> tasksFile.tasks]
            /\ UNCHANGED <<processedMessages, inflight, returned, calls,
                           dartRequests, detected, edits, hostVars>>
       ELSE LET cy == [cycles[i] EXCEPT !.currentTasks = tasksFile.tasks]
                changes == detectChanges(lastKnownTasks.tasks, tasksFile.tasks)
                st == processChanges(changes, EngineState, dartApplied)
            IN  /\ Settle(st)
                /\ detected' = Detected(lastKnownTasks.tasks, tasksFile.tasks)
                /\ inflight' = IF st.pending THEN inflight \cup {st.call} ELSE inflight
                /\ CycleGoesOn(i, cy, st)
    /\ UNCHANGED <<tasksFile, now, dartApplied, edits, hostVars>>

\* checkForChanges taking a missing snapshot for an empty one: the first
\* read is compared with no tasks at all
checkForChangesRead_DiffsFirstRead(i, io) ==
    /\ i \in 1..Len(cycles)
    /\ cycles[i].pc = "read"
    /\ IF io = "fail" \/ ~tasksFile.exists
       THEN /\ cycles' = RemoveAt(cycles, i)
            /\ UNCHANGED <<processedMessages, inflight, returned, calls,
                           dartRequests, lastKnownTasks, detected, edits, hostVars>>
       ELSE LET cy == [cycles[i] EXCEPT !.currentTasks = tasksFile.tasks]
                changes == detectChanges(lastKnownTasks.tasks, tasksFile.tasks)
                st == processChanges(changes, EngineState, dartApplied)
            IN  /\ Settle(st)
                /\ detected' = Detected(lastKnownTasks.tasks, tasksFile.tasks)
                /\ inflight' = IF st.pending THEN inflight \cup {st.call} ELSE inflight
                /\ CycleGoesOn(i, cy, st)
    /\ UNCHANGED <<tasksFile, now, dartApplied, edits, hostVars>>

\* readFile of checkForChanges number i settles; the run goes on to the
\* first fetch it awaits or to its end
checkForChangesRead(i, io) ==
    /\ i \in 1..Len(cycles)
    /\ cycles[i].pc = "read"
    /\ IF io = "fail" \/ ~tasksFile.exists
       THEN /\ cycles' = RemoveAt(cycles, i)
            /\ UNCHANGED <<processedMessages, inflight, returned, calls,
                           dartRequests, lastKnownTasks, detected, edits, hostVars>>
       ELSE IF ~lastKnownTasks.known
       THEN /\ cycles' = RemoveAt(cycles, i)
            /\ lastKnownTasks' = [known |-> TRUE, tasks |-> tasksFile.tasks]
            /\ UNCHANGED <<processedMessages, inflight, returned, calls,
                           dartRequests, detected, edits, hostVars>>
       ELSE LET cy == [cycles[i] EXCEPT !.currentTasks = tasksFile.tasks]
                changes == detectChanges(lastKnownTasks.tasks, tasksFile.tasks)
                st == processChanges(changes, EngineState, dartApplied)
            IN  /\ Settle(st)
                /\ detected' = Detected(lastKnownTasks.tasks, tasksFile.tasks)
                /\ inflight' = IF st.pending THEN inflight \cup {st.call} ELSE inflight
                /\ CycleGoesOn(i, cy, st)
    /\ UNCHANGED <<tasksFile, now, dartApplied, edits, hostVars>>

\* fetchSettles with a processChange that lets the error through: the
\* cycle ends in the catch block of checkForChanges, its other changes are
\* not sent and its snapshot is not stored
fetchSettles_AbortsCycle(c, status) ==
    /\ c \in inflight
    /\ c.pc = "fetch"
    /\ LET res == IF ResponseOk(status) THEN Success
                  ELSE sendTaskMasterToDartCatch("Dart API error: " \o ToString(status))
           st0 == [EngineState EXCEPT !.returned = Ret(c.n, T2D, c.message, res, 0, 1)]
       IN  IF c.origin = "tool"
           THEN /\ Settle(st0)
                /\ inflight' = inflight \ {c}
                /\ UNCHANGED <<lastKnownTasks, cycles>>
           ELSE \E i \in 1..Len(cycles) :
                    /\ cycles[i].pc = "send"
                    /\ cycles[i].awaiting = c.n
                    /\ IF ResponseOk(status)
                       THEN LET st == processChanges(cycles[i].rest, st0, dartApplied)
                            IN  /\ Settle(st)
                                /\ inflight' = (inflight \ {c}) \cup
                                               (IF st.pending THEN {st.call} ELSE {})
                                /\ CycleGoesOn(i, cycles[i], st)
                       ELSE /\ Settle(st0)
                            /\ inflight' = inflight \ {c}
                            /\ cycles' = RemoveAt(cycles, i)
                            /\ UNCHANGED lastKnownTasks
    /\ UNCHANGED <<tasksFile, now, dartApplied, detected, edits, hostVars>>

\* fetchSettles repeating a request that failed, config.maxRetries times
fetchSettles_Retries(c, status) ==
    IF /\ c \in inflight
       /\ c.pc = "fetch"
       /\ ~ResponseOk(status)
       /\ Cardinality({i \in 1..Len(dartRequests) : dartRequests[i].n = c.n})
              <= config.maxRetries
    THEN /\ dartRequests' =
                Append(dartRequests,
                       dartRequests[CHOOSE i \in 1..Len(dartRequests) :
                                        dartRequests[i].n = c.n])
         /\ UNCHANGED <<processedMessages, tasksFile, inflight, returned, calls, now,
                        lastKnownTasks, cycles, dartApplied, detected, edits, hostVars>>
    ELSE
        /\ c \in inflight
        /\ c.pc = "fetch"
        /\ LET res == IF ResponseOk(status) THEN Success
                      ELSE sendTaskMasterToDartCatch("Dart API error: " \o ToString(status))
               st0 == [EngineState EXCEPT !.returned = Ret(c.n, T2D, c.message, res, 0, 1)]
           IN  IF c.origin = "tool"
               THEN /\ Settle(st0)
                    /\ inflight' = inflight \ {c}
                    /\ UNCHANGED <<lastKnownTasks, cycles>>
               ELSE \E i \in 1..Len(cycles) :
                        /\ cycles[i].pc = "send"
                        /\ cycles[i].awaiting = c.n
                        /\ LET st == processChanges(cycles[i].rest, st0, dartApplied)
                           IN  /\ Settle(st)
                               /\ inflight' = (inflight \ {c}) \cup
                                              (IF st.pending THEN {st.call} ELSE {})
                               /\ CycleGoesOn(i, cycles[i], st)
        /\ UNCHANGED <<tasksFile, now, dartApplied, detected, edits, hostVars>>

\* the fetch of call c settles with an HTTP status; sendTaskMasterToDart
\* returns or throws, and a checkForChanges that awaited it goes on
fetchSettles(c, status) ==
    /\ c \in inflight
    /\ c.pc = "fetch"
    /\ LET res == IF ResponseOk(status) THEN Success
                  ELSE sendTaskMasterToDartCatch("Dart API error: " \o ToString(status))
           st0 == [EngineState EXCEPT !.returned = Ret(c.n, T2D, c.message, res, 0, 1)]
       IN  IF c.origin = "tool"
           THEN /\ Settle(st0)
                /\ inflight' = inflight \ {c}
                /\ UNCHANGED <<lastKnownTasks, cycles>>
           ELSE \E i \in 1..Len(cycles) :
                    /\ cycles[i].pc = "send"
                    /\ cycles[i].awaiting = c.n
                    /\ LET st == processChanges(cycles[i].rest, st0, dartApplied)
                       IN  /\ Settle(st)
                           /\ inflight' = (inflight \ {c}) \cup
                                          (IF st.pending THEN {st.call} ELSE {})
                           /\ CycleGoesOn(i, cycles[i], st)
    /\ UNCHANGED <<tasksFile, now, dartApplied, detected, edits, hostVars>>

\* The connector under the two tools: calls arrive at any time, also while
\* earlier calls wait for their I/O.
Next ==
    \/ Tick
    \/ \E in \in DartInputs :
           sync_dart_to_taskmaster(in.task_id, in.update_type, in.payload)
    \/ \E c \in inflight, io \in IoResults : loadTaskMasterTasks(c, io)
    \/ \E c \in inflight, io \in IoResults : saveTaskMasterTasks(c, io)
    \/ \E in \in TaskMasterInputs :
           sync_taskmaster_to_dart(in.task_id, in.update_type, in.payload)
    \/ \E c \in inflight, status \in HttpStatuses : fetchSettles(c, status)

Spec == Init /\ [][Next]_vars

\* The connector under calls that are repeated, rejected or failing: a
\* create and a completion from Dart, an update, a completion and a
\* deletion from TaskMaster, and an invalid call of either tool.
DartCalls ==
    {Input("X1", "create", Plain), Input("X1", "complete", DoneOfX2),
     Input("X1", "create", NoStatus)}

TaskMasterCalls ==
    {Input("1", "update", Unlinked), Input("1", "complete", Unlinked),
     Input("1", "delete", LinkedToX1), Input("1", "update", NoStatus)}

NextCalls ==
    \/ Tick
    \/ \E in \in DartCalls :
           sync_dart_to_taskmaster(in.task_id, in.update_type, in.payload)
    \/ \E c \in inflight, io \in IoResults : loadTaskMasterTasks(c, io)
    \/ \E c \in inflight, io \in IoResults : saveTaskMasterTasks(c, io)
    \/ \E in \in TaskMasterCalls :
           sync_taskmaster_to_dart(in.task_id, in.update_type, in.payload)
    \/ \E c \in inflight, status \in HttpStatuses : fetchSettles(c, status)

SpecCalls == Init /\ [][NextCalls]_vars

\* The connector under calls that arrive while others are pending: a
\* create from Dart and an update from TaskMaster, at any time.
IntakeDartCalls == {Input("X1", "create", Plain)}

IntakeTaskMasterCalls == {Input("1", "update", Unlinked)}

NextIntake ==
    \/ Tick
    \/ \E in \in IntakeDartCalls :
           sync_dart_to_taskmaster(in.task_id, in.update_type, in.payload)
    \/ \E c \in inflight, io \in IoResults : loadTaskMasterTasks(c, io)
    \/ \E c \in inflight, io \in IoResults : saveTaskMasterTasks(c, io)
    \/ \E in \in IntakeTaskMasterCalls :
           sync_taskmaster_to_dart(in.task_id, in.update_type, in.payload)
    \/ \E c \in inflight, status \in HttpStatuses : fetchSettles(c, status)

SpecIntake == Init /\ [][NextIntake]_vars

\* The connector under the listener: changes arrive from Dart and are
\* written to the file, which the interval timer polls.
ListenerInputs ==
    {Input("X1", "create", Plain), Input("X1", "update", Plain),
     Input("X1", "complete", DoneOfX2), Input("X1", "delete", Plain)}

NextListener ==
    \/ Tick
    \/ \E in \in ListenerInputs :
           sync_dart_to_taskmaster(in.task_id, in.update_type, in.payload)
    \/ \E c \in inflight, io \in IoResults : loadTaskMasterTasks(c, io)
    \/ \E c \in inflight, io \in IoResults : saveTaskMasterTasks(c, io)
    \/ \E c \in inflight, status \in HttpStatuses : fetchSettles(c, status)
    \/ checkForChanges
    \/ \E i \in 1..Len(cycles), io \in IoResults : checkForChangesRead(i, io)

SpecListener == Init /\ [][NextListener]_vars

\* The reducers of the local store: updates, completions and deletions
\* arrive from Dart for a task that has a record (X1 in the larger file)
\* and for tasks that have none.
ReducerInputs ==
    {Input("X1", "update", Plain), Input("X1", "update", DoneOfX2),
     Input("X2", "update", Plain), Input("X1", "complete", Plain),
     Input("X2", "complete", Plain), Input("X1", "delete", Plain),
     Input("X2", "delete", Plain)}

NextReducers ==
    \/ Tick
    \/ \E in \in ReducerInputs :
           sync_dart_to_taskmaster(in.task_id, in.update_type, in.payload)
    \/ \E c \in inflight, io \in IoResults : loadTaskMasterTasks(c, io)
    \/ \E c \in inflight, io \in IoResults : saveTaskMasterTasks(c, io)

SpecReducers == Init /\ [][NextReducers]_vars

\* The change detector on its own: the listener holds a snapshot of the
\* file, the file has been rewritten since, by the connector or by
\* TaskMaster, and the next cycle compares the two.
TaskIds == {1, 2}

\* versions of the task with an id: as authored, done, done and renamed,
\* and as authored with the status written ahead of the other keys
TaskVersions(id) ==
    {LocalTask(id),
     [LocalTask(id) EXCEPT !.status = "done"],
     [LocalTask(id) EXCEPT !.status = "done", !.title = "Renamed"],
     Spread(LocalTask(id), [keys |-> <<"status">>])}

Snapshots ==
    UNION {[1..n -> UNION {TaskVersions(id) : id \in TaskIds}] : n \in 0..MaxTasks}

InitDiff ==
    /\ processedMessages = <<>>
    /\ tasksFile \in {[exists |-> TRUE, tasks |-> tasks] : tasks \in Snapshots}
    /\ inflight = {}
    /\ returned = NoReturn
    /\ calls = 0
    /\ now = 1
    /\ dartRequests = <<>>
    /\ lastKnownTasks \in {[known |-> TRUE, tasks |-> tasks] : tasks \in Snapshots}
    /\ cycles = <<>>
    /\ dartApplied = {}
    /\ detected = NoneDetected
    /\ edits = 0
    /\ env = Environment
    /\ InitHost

\* const changes = detectChanges(lastKnownTasks, currentTasks)
detectChangesCall ==
    /\ ~detected.ran
    /\ detected' = Detected(lastKnownTasks.tasks, tasksFile.tasks)
    /\ UNCHANGED <<processedMessages, tasksFile, inflight, returned, calls, now,
                   dartRequests, lastKnownTasks, cycles, dartApplied, edits, hostVars>>

NextDiff == detectChangesCall

SpecDiff == InitDiff /\ [][NextDiff]_vars

\* The listener under local authoring: TaskMaster rewrites tasks.json,
\* adding a task, marking one done, renaming one or removing one, and the
\* interval timer polls the file.  (TaskMaster may also remove the file
\* and write it anew, see SpecOutage.)
LocalEdit(kind, i) ==
    /\ edits < MaxEdits
    /\ tasksFile.exists \/ kind = "add"
    /\ edits' = edits + 1
    /\ CASE kind = "add" ->
               /\ i \in TaskIds \ IdsOf(tasksFile.tasks)
               /\ tasksFile' = [exists |-> TRUE,
                                tasks |-> Append(tasksFile.tasks, LocalTask(i))]
         [] kind = "unlink" ->
               /\ i = 1
               /\ tasksFile' = [exists |-> FALSE, tasks |-> <<>>]
         [] kind = "done" ->
               /\ i \in 1..Len(tasksFile.tasks)
               /\ tasksFile.tasks[i].status # "done"
               /\ tasksFile' = [tasksFile EXCEPT !.tasks[i].status = "done"]
         [] kind = "rename" ->
               /\ i \in 1..Len(tasksFile.tasks)
               /\ tasksFile.tasks[i].title # "Renamed"
               /\ tasksFile' = [tasksFile EXCEPT !.tasks[i].title = "Renamed"]
         [] kind = "remove" ->
               /\ i \in 1..Len(tasksFile.tasks)
               /\ tasksFile' = [tasksFile EXCEPT !.tasks = RemoveAt(@, i)]
    /\ UNCHANGED <<processedMessages, inflight, returned, calls, now, dartRequests,
                   lastKnownTasks, cycles, dartApplied, detected, hostVars>>

InitPoll ==
    /\ Init
    /\ tasksFile.exists

NextPoll ==
    \/ Tick
    \/ \E kind \in {"add", "done", "rename", "remove"}, i \in 1..MaxTasks :
           LocalEdit(kind, i)
    \/ checkForChanges
    \/ \E i \in 1..Len(cycles), io \in IoResults : checkForChangesRead(i, io)
    \/ \E c \in inflight, status \in HttpStatuses : fetchSettles(c, status)

SpecPoll == InitPoll /\ [][NextPoll]_vars

\* The listener under outages of the file: TaskMaster adds tasks, removes
\* the file and writes it anew, reads of the file fail, and the interval
\* timer polls the file.
NextOutage ==
    \/ \E kind \in {"add", "unlink"}, i \in 1..MaxTasks : LocalEdit(kind, i)
    \/ checkForChanges
    \/ \E i \in 1..Len(cycles), io \in IoResults : checkForChangesRead(i, io)
    \/ \E c \in inflight, status \in HttpStatuses : fetchSettles(c, status)

SpecOutage == InitPoll /\ [][NextOutage]_vars

\* The entry points on their own: one call of sendDartToTaskMaster or of
\* sendTaskMasterToDart on the connector as constructed, with an object
\* that the webhook handlers, the tools or another caller may pass, and
\* the I/O of that call.
SourceValues == {Undefined, "Dart", "TaskMaster", "Jira"}

TaskIdValues == {Undefined, "", "X1", Number42}

UpdateTypeValues == {Undefined, "create", "delete", "archive"}

TimestampValues == {Undefined, "", toISOString(1)}

PayloadValues ==
    {NoFields, [payload |-> NoStatus], [payload |-> Plain],
     [payload |-> [status |-> ""]]}

\* statuses of both vocabularies, a status of neither, and two names of
\* properties of Object.prototype
StatusValues ==
    {"To-do", "Doing", "Done", "pending", "in-progress", "done",
     "unknown-value", "constructor", "__proto__"}

Candidates ==
    {Spread(Spread(Spread(Spread(
         Field("source", source), Field("task_id", task_id)),
         Field("update_type", update_type)), Field("timestamp", timestamp)),
         payload) :
        source \in SourceValues, task_id \in TaskIdValues,
        update_type \in UpdateTypeValues, timestamp \in TimestampValues,
        payload \in PayloadValues}
    \cup
    {[source |-> source, task_id |-> "X1", update_type |-> update_type,
      timestamp |-> toISOString(1), payload |-> [status |-> status]] :
        source \in {"Dart", "TaskMaster"}, update_type \in {"create", "update"},
        status \in StatusValues}

InitEntry ==
    /\ Init
    /\ tasksFile.exists

\* a direct call of an exported entry point
callEntry(entry, message) ==
    LET st == IF entry = D2T
              THEN sendDartToTaskMaster(EngineState, message, "tool")
              ELSE sendTaskMasterToDart(EngineState, message, "tool", FALSE)
    IN  /\ calls = 0
        /\ Settle(st)
        /\ inflight' = IF st.pending THEN {st.call} ELSE {}
        /\ UNCHANGED <<tasksFile, now, lastKnownTasks, cycles, dartApplied, detected,
                       edits, hostVars>>

NextEntry ==
    \/ \E entry \in {D2T, T2D}, message \in Candidates : callEntry(entry, message)
    \/ \E c \in inflight, io \in IoResults : loadTaskMasterTasks(c, io)
    \/ \E c \in inflight, io \in IoResults : saveTaskMasterTasks(c, io)
    \/ \E c \in inflight, status \in HttpStatuses : fetchSettles(c, status)

SpecEntry == InitEntry /\ [][NextEntry]_vars

----------------------------------------------------------------------------
(* Properties *)

\* the step settles an engine call (each call has its own number n)
Settles == returned'.n # returned.n

\* the step makes exactly one engine call, and that call settles in it
CallsAndSettles == calls' = calls + 1 /\ returned'.n = calls'

Mutations(r) == r.writes + r.requests

C2_NoEcho == \A i \in 1..Len(dartRequests) : ~dartRequests[i].echo

\* C3: no two calls of sendDartToTaskMaster are between their read of the
\* file and their write of it at the same time.
C3_OneCallAtATime ==
    \A c, d \in inflight : (c.pc = "save" /\ d.pc = "save") => c = d

\* C4: when a call with a valid envelope e has thrown, a further call with
\* e is not answered {success: true, skipped: true}.
C4_FailedIsReprocessed ==
    [][ ( /\ returned.outcome = "thrown"
          /\ validateMessage(returned.message)
          /\ CallsAndSettles
          /\ returned'.message = returned.message )
        => returned'.outcome # "skipped" ]_vars

\* C5: the records in the file have pairwise distinct ids.
C5_DistinctIds ==
    \A i, j \in 1..Len(tasksFile.tasks) :
        i # j => tasksFile.tasks[i].id # tasksFile.tasks[j].id

\* C6 as stated: a call in which the file read, the file write or the
\* API request failed does not throw; it returns a failure result.
C6_NeverThrows ==
    returned.error \in {"Failed to load TaskMaster tasks",
                        "Failed to save TaskMaster tasks",
                        "Dart API error: 500"}
        => returned.outcome = "failure"

\* C6 as amended: the entry points return only {success: true} and
\* {success: true, skipped: true}; every error (invalid message, file
\* read or write error, API error) leaves them as a thrown exception that
\* carries the error, never as a returned {success: false, error}.
C6_ErrorsAreRethrown ==
    /\ returned.outcome \in {"none", "success", "skipped", "thrown"}
    /\ returned.outcome = "thrown" <=> returned.error # ""

\* C6 witness: a reducer's write of the file failed and the call threw.
C6_Witness ==
    /\ returned.outcome = "thrown"
    /\ returned.error = "Failed to save TaskMaster tasks"

\* C7: a call that rejects an invalid envelope leaves the cache, the file,
\* the request log and the set of pending I/O unchanged; and a valid
\* envelope with the id of a rejected one, whose id is not cached, is not
\* skipped.
C7_InvalidTouchesNothing ==
    [][ /\ (CallsAndSettles /\ returned'.error = "Invalid message format")
            => /\ processedMessages' = processedMessages
               /\ tasksFile' = tasksFile
               /\ dartRequests' = dartRequests
               /\ inflight' = inflight
        /\ ( /\ returned.error = "Invalid message format"
             /\ ~SetHas(processedMessages, messageId(returned.message))
             /\ CallsAndSettles
             /\ validateMessage(returned'.message)
             /\ messageId(returned'.message) = messageId(returned.message) )
            => returned'.outcome # "skipped" ]_vars

\* C7 witness: an invalid envelope was rejected, and a valid one with the
\* same source, task id and timestamp, sent after it, reads the file.
C7_Witness ==
    /\ returned.error = "Invalid message format"
    /\ \E c \in inflight :
           /\ c.n > returned.n
           /\ c.pc = "load"
           /\ messageId(c.message) = messageId(returned.message)

\* C10: the record that a create envelope has just added to the file has
\* metadata.dartId equal to the envelope's task_id.
C10_DartIdIsTaskId ==
    [][ ( /\ Settles
          /\ returned'.entry = D2T
          /\ returned'.outcome = "success"
          /\ returned'.writes = 1
          /\ returned'.message.update_type = "create" )
        => tasksFile'.tasks[Len(tasksFile'.tasks)].metadata.dartId
               = returned'.message.task_id ]_vars

----------------------------------------------------------------------------
(* The idempotency cache at its limit: envelopes number 1, 2, ... with      *)
(* distinct timestamps, the odd ones from Dart and the even ones from       *)
(* TaskMaster, are sent to their entry points one after the other; once     *)
(* the cache is full, earlier envelopes are sent again.  The envelopes are  *)
(* completions of a task without a record and without a dartId, so that a   *)
(* call that is not skipped changes nothing but the cache.                  *)

CacheMessage(k) ==
    [source |-> IF k % 2 = 1 THEN "Dart" ELSE "TaskMaster",
     task_id |-> "X1", update_type |-> "complete",
     timestamp |-> toISOString(k), payload |-> Unlinked]

InitCache ==
    /\ Init
    /\ tasksFile = [exists |-> TRUE, tasks |-> <<>>]

\* a direct call of the entry point that matches the envelope's source
Send(message) ==
    LET st == IF message.source = "Dart"
              THEN sendDartToTaskMaster(EngineState, message, "tool")
              ELSE sendTaskMasterToDart(EngineState, message, "tool", FALSE)
    IN  /\ inflight = {}
        /\ Settle(st)
        /\ inflight' = IF st.pending THEN {st.call} ELSE {}
        /\ UNCHANGED <<tasksFile, lastKnownTasks, cycles, dartApplied, detected,
                       edits, hostVars>>

\* the next envelope
SendFresh ==
    /\ now <= MaxInserts
    /\ Send(CacheMessage(now))
    /\ now' = now + 1

\* the first, the second or the latest envelope once more
SendAgain(k) ==
    /\ k \in 1..(now - 1)
    /\ Len(processedMessages) = CacheLimit
    /\ calls - (now - 1) < MaxResubmits
    /\ Send(CacheMessage(k))
    /\ UNCHANGED now

NextCache ==
    \/ SendFresh
    \/ \E k \in {1, 2, now - 1} : SendAgain(k)
    \/ \E c \in inflight : loadTaskMasterTasks(c, "ok")

SpecCache == InitCache /\ [][NextCache]_vars

\* C8: every change of the cache appends one id that was not in it and,
\* when the cache was full, drops exactly the oldest id; after envelopes
\* 1 .. 1001 the id of envelope 1 is gone and those of 2 .. 1001 are
\* cached; an envelope whose id is not cached is never skipped.
C8_StrictFifo ==
    /\ [][ processedMessages' # processedMessages
           => LET f == processedMessages'[Len(processedMessages')]
              IN  /\ ~SetHas(processedMessages, f)
                  /\ processedMessages' =
                         IF Len(processedMessages) < CacheLimit
                         THEN Append(processedMessages, f)
                         ELSE Append(Tail(processedMessages), f) ]_vars
    /\ []( (now = CacheLimit + 2 /\ calls = CacheLimit + 1)
           => /\ ~SetHas(processedMessages, messageId(CacheMessage(1)))
              /\ \A k \in 2..(CacheLimit + 1) :
                     SetHas(processedMessages, messageId(CacheMessage(k))) )
    /\ [][ ( /\ ~SetHas(processedMessages, messageId(CacheMessage(1)))
             /\ CallsAndSettles
             /\ returned'.message = CacheMessage(1) )
           => returned'.outcome # "skipped" ]_vars

\* C8 witness: envelope 1 was evicted by envelope 1001, was sent again,
\* was not skipped, and is now the newest id of the full cache.
C8_Witness ==
    /\ now = CacheLimit + 2
    /\ calls = CacheLimit + 2
    /\ Len(processedMessages) = CacheLimit
    /\ processedMessages[CacheLimit] = messageId(CacheMessage(1))
    /\ processedMessages[1] = messageId(CacheMessage(3))
    /\ returned.message = CacheMessage(1)
    /\ returned.outcome = "success"

\* C9: the cache never holds more than 1000 ids.
C9_CacheBound == Len(processedMessages) <= CacheLimit

\* C9 witness: more than 1000 envelopes of both directions were checked
\* and the cache is full.
C9_Witness ==
    /\ Len(processedMessages) = CacheLimit
    /\ now > CacheLimit + 2
    /\ \E i, j \in {1, 2} :
           /\ processedMessages[i] = messageId(CacheMessage(now - CacheLimit))
           /\ processedMessages[j] = messageId(CacheMessage(now - CacheLimit + 1))

----------------------------------------------------------------------------
(* The reducers of the local store *)

\* C11: when the file was read for an update envelope whose task_id is the
\* metadata.dartId of no record, the reducer hands to the write the records
\* of the file followed by exactly one new record, and that record has
\* metadata.dartId equal to the envelope's task_id.
C11_FallbackRecordHasTaskId ==
    [][ \A c \in inflight, d \in inflight' :
          ( /\ c.pc = "load"
            /\ d.pc = "save"
            /\ d.n = c.n
            /\ c.message.update_type = "update"
            /\ findIndexByDartId(tasksFile.tasks, c.message.task_id) = 0 )
          => /\ Len(d.tasksData) = Len(tasksFile.tasks) + 1
             /\ SubSeq(d.tasksData, 1, Len(tasksFile.tasks)) = tasksFile.tasks
             /\ d.tasksData[Len(d.tasksData)].metadata.dartId = c.message.task_id ]_vars

\* C12: when the file was read for a complete or delete envelope whose
\* task_id is the metadata.dartId of no record, the call ends in that step:
\* it returns {success: true} without a write, it does not throw, the file
\* keeps its records and no write of the file is pending for it.
C12_UnknownIsNoOp ==
    [][ \A c \in inflight :
          ( /\ c.pc = "load"
            /\ c \notin inflight'
            /\ c.message.update_type \in {"complete", "delete"}
            /\ findIndexByDartId(tasksFile.tasks, c.message.task_id) = 0
            /\ returned'.error # "Failed to load TaskMaster tasks" )
          => /\ returned' = Ret(c.n, D2T, c.message, Success, 0, 0)
             /\ tasksFile' = tasksFile
             /\ inflight' = inflight \ {c} ]_vars

\* C12 witness: the record of X1 was deleted, and a completion of X1 that
\* came after it returned {success: true} and left the file as it was.
C12_Witness ==
    /\ returned.n = 2
    /\ returned.entry = D2T
    /\ returned.message.update_type = "complete"
    /\ returned.message.task_id = "X1"
    /\ returned.outcome = "success"
    /\ returned.writes = 0
    /\ tasksFile.tasks = <<LocalTask(2)>>

----------------------------------------------------------------------------
(* The change detector *)

DistinctIds(tasks) ==
    \A i, j \in 1..Len(tasks) : i # j => tasks[i].id # tasks[j].id

\* oldTasks.tasks.find(task => task.id === id), for an id that occurs
FirstWithId(tasks, id) ==
    tasks[CHOOSE i \in 1..Len(tasks) :
              /\ tasks[i].id = id
              /\ \A j \in 1..Len(tasks) : tasks[j].id = id => i <= j]

\* the properties of a task object and their values, in no order
Fields(task) == [k \in DOMAIN task \ {"keys"} |-> task[k]]

\* the tasks of the events number from .. to
EventTasks(changes, from, to) == [i \in 1..(to - from + 1) |-> changes[from + i - 1].task]

\* picked is tasks with some of its entries left out
IsSubsequenceOf(picked, tasks) ==
    \E f \in [1..Len(picked) -> 1..Len(tasks)] :
        /\ \A i \in 1..Len(picked) : tasks[f[i]] = picked[i]
        /\ \A i, j \in 1..Len(picked) : i < j => f[i] < f[j]

\* C13: every task of the current snapshot whose id occurs in the previous
\* one and whose fields differ from the previous record's has an event
\* with both records, and every event with both records is 'complete' if
\* and only if the status differs and the new status is 'done', and
\* 'update' otherwise.
C13_Classification ==
    detected.ran =>
        /\ \A j \in 1..Len(detected.newTasks) :
               LET newTask == detected.newTasks[j]
               IN  newTask.id \in IdsOf(detected.oldTasks) =>
                       LET oldTask == FirstWithId(detected.oldTasks, newTask.id)
                       IN  Fields(oldTask) # Fields(newTask) =>
                               \E e \in Range(detected.changes) :
                                   /\ e.type \in {"complete", "update"}
                                   /\ e.task = newTask
                                   /\ e.oldTask = oldTask
        /\ \A e \in Range(detected.changes) :
               e.type # "create" /\ e.type # "delete" =>
                   /\ e.type \in {"complete", "update"}
                   /\ e.type = "complete" <=>
                          (e.oldTask.status # e.task.status /\ e.task.status = "done")

\* C13 witness: one diff holds a 'complete' event for a task that was also
\* renamed and an 'update' event for a task that was done before and
\* still is.
C13_Witness ==
    /\ detected.ran
    /\ \E e, u \in Range(detected.changes) :
           /\ e.type = "complete"
           /\ e.oldTask.title # e.task.title
           /\ u.type = "update"
           /\ u.oldTask.status = "done"
           /\ u.task.status = "done"

C15_OutputOrder ==
    detected.ran =>
        LET ch == detected.changes
        IN  /\ \E k \in 0..Len(ch) :
                   /\ \A i \in 1..k : ch[i].type # "delete"
                   /\ \A i \in (k + 1)..Len(ch) : ch[i].type = "delete"
                   /\ IsSubsequenceOf(EventTasks(ch, 1, k), detected.newTasks)
                   /\ IsSubsequenceOf(EventTasks(ch, k + 1, Len(ch)), detected.oldTasks)
            /\ ( /\ detected.oldTasks = <<LocalTask(1)>>
                 /\ detected.newTasks = <<[LocalTask(1) EXCEPT !.status = "done"],
                                          LocalTask(2)>> )
                   => ch = <<[type |-> "complete",
                              task |-> [LocalTask(1) EXCEPT !.status = "done"],
                              oldTask |-> LocalTask(1)],
                             [type |-> "create", task |-> LocalTask(2)]>>

\* C15 witness: a diff in which a task was completed and another deleted;
\* the 'complete' event is ahead of the 'delete' event although the
\* deleted task came first in the previous snapshot.
C15_Witness ==
    /\ detected.ran
    /\ Len(detected.changes) = 2
    /\ detected.changes[1].type = "complete"
    /\ detected.changes[2].type = "delete"
    /\ detected.oldTasks[1] = detected.changes[2].task

\* C16: no 'update' or 'complete' event is emitted for two versions of a
\* task that have the same properties with the same values.
C16_KeyOrderIgnored ==
    \A e \in Range(detected.changes) :
        e.type \in {"update", "complete"} => Fields(e.task) # Fields(e.oldTask)

----------------------------------------------------------------------------
(* The reducers of the Dart API *)

\* payload.metadata carries no dartId
Unlinks(message) == ~Truthy(Get(MetadataOf(message.payload), "dartId"))

----------------------------------------------------------------------------
(* The validator and the status mapper *)

\* what is asked of a candidate: a known source, a task_id that is a
\* non-empty string, a known update_type, a timestamp, and a payload with
\* a status (an empty timestamp or status counts as absent)
WellFormed(candidate) ==
    /\ Get(candidate, "source") \in {"Dart", "TaskMaster"}
    /\ IsString(Get(candidate, "task_id"))
    /\ Get(candidate, "task_id") # ""
    /\ Get(candidate, "update_type") \in {"create", "update", "complete", "delete"}
    /\ Truthy(Get(candidate, "timestamp"))
    /\ Has(candidate, "payload")
    /\ Truthy(Get(candidate.payload, "status"))

\* C17: the entry points go on with a candidate exactly when it is well
\* formed: every call that got past validateMessage has a well-formed
\* envelope, and every call rejected as 'Invalid message format' has one
\* that is not well formed.
C17_ValidIffWellFormed ==
    /\ \A c \in inflight : WellFormed(c.message)
    /\ returned.outcome \in {"success", "skipped"} => WellFormed(returned.message)
    /\ returned.error = "Invalid message format" => ~WellFormed(returned.message)

\* the lookup tables with their defaults
toLocal(status) ==
    CASE status = "To-do" -> "pending"
      [] status = "Doing" -> "in-progress"
      [] status = "Done"  -> "done"
      [] OTHER            -> "pending"

toRemote(status) ==
    CASE status = "pending"     -> "To-do"
      [] status = "in-progress" -> "Doing"
      [] status = "done"        -> "Done"
      [] OTHER                  -> "To-do"

\* C18: the record that a create envelope from Dart adds has the status
\* toLocal(payload.status), and the task that a create envelope from
\* TaskMaster posts to Dart has the status toRemote(payload.status),
\* whatever string payload.status is.
C18_TotalLookup ==
    \A c \in inflight :
        /\ (c.pc = "save" /\ c.message.update_type = "create")
               => c.tasksData[Len(c.tasksData)].status
                      = toLocal(c.message.payload.status)
        /\ (c.pc = "fetch" /\ c.message.update_type = "create")
               => \E i \in 1..Len(dartRequests) :
                      /\ dartRequests[i].n = c.n
                      /\ Get(dartRequests[i].request.body, "status")
                             = toRemote(c.message.payload.status)

----------------------------------------------------------------------------
(* The poll path *)

\* a task record without metadata.dartId
LocalOnly(task) == ~Has(task, "metadata") \/ ~Truthy(Get(task.metadata, "dartId"))

\* C20: every envelope that the poll path hands to sendTaskMasterToDart
\* for a task without metadata.dartId is a create; and a cycle whose
\* changes are all updates, completions or deletions of such tasks makes
\* no call of sendTaskMasterToDart and no request to the Dart API.
C20_LocalOnlyAsCreate ==
    /\ [](\A c \in inflight :
              Unlinks(c.message) => c.message.update_type = "create")
    /\ []((returned.n > 0 /\ Unlinks(returned.message))
              => returned.message.update_type = "create")
    /\ [][ ( /\ detected' # detected
             /\ \A ch \in Range(detected'.changes) :
                    ch.type # "create" /\ LocalOnly(ch.task) )
           => /\ calls' = calls
              /\ returned' = returned
              /\ dartRequests' = dartRequests
              /\ inflight' = inflight ]_vars

\* C20 witness: a task authored in TaskMaster was sent to Dart as a
\* create; it was renamed afterwards, and the cycle that found the update
\* has ended without a further call or request.
C20_Witness ==
    /\ calls = 1
    /\ Len(dartRequests) = 1
    /\ dartRequests[1].request.method = "POST"
    /\ returned.n = 1
    /\ returned.message.update_type = "create"
    /\ Unlinks(returned.message)
    /\ cycles = <<>>
    /\ Len(detected.changes) = 1
    /\ detected.changes[1].type = "update"
    /\ LocalOnly(detected.changes[1].task)
    /\ lastKnownTasks.tasks = detected.newTasks

----------------------------------------------------------------------------
(* Remote calls that fail *)

\* the requests made to the Dart API for engine call n
RequestsOf(n) == {i \in 1..Len(dartRequests) : dartRequests[i].n = n}

----------------------------------------------------------------------------
(* Poll cycles that cannot read the file *)

\* a checkForChanges that had not got past its read of the file ends in
\* this step
ReadCycleEnds ==
    \E i \in 1..Len(cycles) :
        /\ cycles[i].pc = "read"
        /\ cycles' = RemoveAt(cycles, i)

\* the cycle that ends was skipped: nothing was sent and nothing is
\* remembered of it
CycleSkipped ==
    UNCHANGED <<lastKnownTasks, processedMessages, inflight, returned, calls,
                dartRequests, detected>>

\* C22: a cycle that ends after its read either was skipped, with no
\* call of sendTaskMasterToDart, no request, no error returned to anyone
\* and the snapshot as it was, or it has read the file, which exists, and
\* then it is the first read, which stores the file as the snapshot, or
\* it has diffed the file against the snapshot; a cycle that ends while
\* the file is missing was skipped.  Every diff is one of the snapshot
\* against the file as they are, and it yields events when they differ;
\* the snapshot changes only when a cycle ends.
C22_OutageKeepsSnapshot ==
    /\ [][ ReadCycleEnds
           => \/ CycleSkipped
              \/ /\ tasksFile.exists
                 /\ ~lastKnownTasks.known
                 /\ lastKnownTasks' = [known |-> TRUE, tasks |-> tasksFile.tasks]
                 /\ UNCHANGED <<calls, dartRequests, inflight, returned, detected>>
              \/ /\ tasksFile.exists
                 /\ lastKnownTasks.known
                 /\ detected' = Detected(lastKnownTasks.tasks, tasksFile.tasks)
                 /\ lastKnownTasks' = [known |-> TRUE, tasks |-> tasksFile.tasks] ]_vars
    /\ [][ detected' # detected
           => /\ lastKnownTasks.known
              /\ detected' = Detected(lastKnownTasks.tasks, tasksFile.tasks)
              /\ lastKnownTasks.tasks # tasksFile.tasks => detected'.changes # <<>> ]_vars
    /\ [][ lastKnownTasks' # lastKnownTasks
           => /\ Len(cycles') < Len(cycles)
              /\ lastKnownTasks'.known ]_vars

\* C22 witness: the listener held the snapshot of two records when the
\* file was removed and written anew with one task; the cycle that read
\* the new file has diffed it against that snapshot and found the second
\* record deleted.
C22_Witness ==
    /\ detected.ran
    /\ detected.oldTasks = <<DartTask(1, "X1"), LocalTask(2)>>
    /\ detected.newTasks = <<LocalTask(1)>>
    /\ \E e \in Range(detected.changes) : e.type = "delete" /\ e.task = LocalTask(2)
    /\ edits = 2

----------------------------------------------------------------------------
(* The reducers of the local store on records that exist *)

\* the file was read for call c in this step and the reducer hands the
\* records of d to the write
Reduces(c, d) ==
    /\ c.pc = "load"
    /\ d.pc = "save"
    /\ d.n = c.n

\* C23: for a create envelope the reducer hands to the write the records
\* of the file followed by one new record, which has the status
\* toLocal(payload.status), the title of the payload or else a
\* placeholder with the task_id, and the priority of the payload or else
\* 'medium'; a create for X1 with status 'To-do' and title 'Demo' on the
\* empty file yields one record with status 'pending', title 'Demo' and
\* metadata.dartId 'X1'.
C23_CreateAppendsOne ==
    [][ \A c \in inflight, d \in inflight' :
          (Reduces(c, d) /\ c.message.update_type = "create")
          => LET p == c.message.payload
                 old == tasksFile.tasks
                 new == d.tasksData
                 newTask == new[Len(new)]
             IN  /\ Len(new) = Len(old) + 1
                 /\ SubSeq(new, 1, Len(old)) = old
                 /\ newTask.status = toLocal(p.status)
                 /\ newTask.title = IF Truthy(Get(p, "title")) THEN p.title
                                    ELSE "Task from Dart: "
                                             \o TemplateString(c.message.task_id)
                 /\ newTask.priority = IF Truthy(Get(p, "priority")) THEN p.priority
                                       ELSE "medium"
                 /\ (c.message.task_id = "X1" /\ p = Plain /\ old = <<>>)
                        => /\ Len(new) = 1
                           /\ newTask.status = "pending"
                           /\ newTask.title = "Demo"
                           /\ newTask.metadata.dartId = "X1" ]_vars

\* C24: for an update envelope whose task_id is the metadata.dartId of a
\* record the reducer hands to the write as many records as the file has,
\* every other record as it is; the record keeps its id and the fields
\* that the payload does not carry, it has the title, the description and
\* the priority of the payload where the payload carries them, and the
\* status toLocal(payload.status); its metadata is the old metadata with
\* payload.metadata merged into it and lastUpdated set to the envelope's
\* timestamp.
C24_UpdateOverwritesPresent ==
    [][ \A c \in inflight, d \in inflight' :
          ( /\ Reduces(c, d)
            /\ c.message.update_type = "update"
            /\ findIndexByDartId(tasksFile.tasks, c.message.task_id) # 0 )
          => LET p == c.message.payload
                 k == findIndexByDartId(tasksFile.tasks, c.message.task_id)
                 old == tasksFile.tasks
                 new == d.tasksData
             IN  /\ Len(new) = Len(old)
                 /\ \A j \in 1..Len(old) : j # k => new[j] = old[j]
                 /\ DOMAIN new[k] = DOMAIN old[k]
                 /\ \A f \in {"id", "dependencies", "details", "testStrategy", "subtasks"} :
                        new[k][f] = old[k][f]
                 /\ \A f \in {"title", "description", "priority"} :
                        new[k][f] = IF Truthy(Get(p, f)) THEN p[f] ELSE old[k][f]
                 /\ new[k].status = toLocal(p.status)
                 /\ new[k].metadata =
                        Spread(Spread(old[k].metadata, MetadataOf(p)),
                               [lastUpdated |-> c.message.timestamp]) ]_vars

\* call c, which waits for its write of the file, ends in this step with
\* {success: true}
Saves(c) ==
    /\ c.pc = "save"
    /\ c \notin inflight'
    /\ returned'.n = c.n
    /\ returned'.outcome = "success"

\* C25: for a complete envelope whose task_id is the metadata.dartId of a
\* record the reducer hands to the write the records of the file with
\* that record's status 'done' and its metadata.completedAt and
\* metadata.lastUpdated the envelope's timestamp, the rest of the record
\* and every other record as they are; for such a delete envelope it
\* hands on the records of the file without that record, the others in
\* their order and with their ids; and the write that succeeds puts
\* exactly these records into the file.
C25_CompleteAndDelete ==
    [][ /\ \A c \in inflight, d \in inflight' :
              ( /\ Reduces(c, d)
                /\ c.message.update_type \in {"complete", "delete"}
                /\ findIndexByDartId(tasksFile.tasks, c.message.task_id) # 0 )
              => LET k == findIndexByDartId(tasksFile.tasks, c.message.task_id)
                     old == tasksFile.tasks
                     new == d.tasksData
                 IN  IF c.message.update_type = "complete"
                     THEN /\ Len(new) = Len(old)
                          /\ \A j \in 1..Len(old) : j # k => new[j] = old[j]
                          /\ new[k].status = "done"
                          /\ new[k].metadata.completedAt = c.message.timestamp
                          /\ new[k].metadata.lastUpdated = c.message.timestamp
                          /\ new[k].id = old[k].id
                          /\ \A f \in DOMAIN old[k] \ {"status", "metadata"} :
                                 new[k][f] = old[k][f]
                          /\ \A f \in DOMAIN old[k].metadata \ {"completedAt", "lastUpdated"} :
                                 new[k].metadata[f] = old[k].metadata[f]
                     ELSE /\ Len(new) = Len(old) - 1
                          /\ \A j \in 1..(k - 1) : new[j] = old[j]
                          /\ \A j \in k..Len(new) : new[j] = old[j + 1]
        /\ \A c \in inflight :
              (Saves(c) /\ c.message.update_type \in {"complete", "delete"})
              => tasksFile'.tasks = c.tasksData ]_vars

\* C25 witness: the record of X1 was completed and then deleted; the file
\* holds the other record alone, with its id 2.
C25_Witness ==
    /\ returned.n = 2
    /\ returned.entry = D2T
    /\ returned.message.update_type = "delete"
    /\ returned.message.task_id = "X1"
    /\ returned.outcome = "success"
    /\ returned.writes = 1
    /\ tasksFile.tasks = <<LocalTask(2)>>
    /\ \E t \in dartApplied : t.status = "done" /\ Has(t.metadata, "completedAt")

----------------------------------------------------------------------------
(* Envelopes that share a message id *)

\* the envelope of the engine call that is made in this step
NewMessage ==
    IF returned'.n = calls'
    THEN returned'.message
    ELSE (CHOOSE c \in inflight' : c.n = calls').message

\* the envelopes of the call that settled last and of the pending calls
KnownMessages ==
    (IF returned.n > 0 THEN {returned.message} ELSE {}) \cup {c.message : c \in inflight}

SameFingerprint(e1, e2) ==
    /\ Get(e1, "source") = Get(e2, "source")
    /\ Get(e1, "task_id") = Get(e2, "task_id")
    /\ Get(e1, "timestamp") = Get(e2, "timestamp")

\* C26: when a call is made with a valid envelope e2 that has the source,
\* the task_id and the timestamp of an earlier envelope e1 whose id is
\* cached, and another update_type or payload, the call returns
\* {success: true, skipped: true} in that step, and the file, the request
\* log, the pending I/O and the cache stay as they are.
C26_FingerprintIgnoresTypeAndPayload ==
    [][ calls' = calls + 1
        => \A e1 \in KnownMessages :
               ( /\ SetHas(processedMessages, messageId(e1))
                 /\ SameFingerprint(e1, NewMessage)
                 /\ \/ e1.update_type # NewMessage.update_type
                    \/ e1.payload # NewMessage.payload
                 /\ validateMessage(NewMessage) )
               => /\ returned'.n = calls'
                  /\ returned'.outcome = "skipped"
                  /\ Mutations(returned') = 0
                  /\ tasksFile' = tasksFile
                  /\ dartRequests' = dartRequests
                  /\ inflight' = inflight
                  /\ processedMessages' = processedMessages ]_vars

\* C26 witness: a create of X1 has put its record into the empty file,
\* and a completion of X1 with the same timestamp and another payload was
\* skipped: the record is not done, and one id is cached for the two
\* calls.
C26_Witness ==
    /\ calls = 2
    /\ Len(processedMessages) = 1
    /\ returned.n = 2
    /\ returned.outcome = "skipped"
    /\ returned.message.update_type = "complete"
    /\ returned.message.payload = DoneOfX2
    /\ Len(tasksFile.tasks) = 1
    /\ tasksFile.tasks[1].metadata.dartId = "X1"
    /\ tasksFile.tasks[1].status = "pending"

----------------------------------------------------------------------------
(* The status mapper, there and back *)

DartStatuses == {"To-do", "Doing", "Done"}

TaskMasterStatuses == {"pending", "in-progress", "done"}

\* C27: mapped back by mapTaskMasterStatusToDart, the status that a
\* create envelope from Dart gave to its record is the payload's status
\* when that is 'To-do', 'Doing' or 'Done', and 'To-do' when it is any
\* other value; mapped back by mapDartStatusToTaskMaster, the status that
\* a create envelope from TaskMaster put into its request is the
\* payload's status when that is 'pending', 'in-progress' or 'done'.
C27_RoundTrip ==
    \A c \in inflight :
        /\ (c.pc = "save" /\ c.message.update_type = "create")
               => LET x == c.message.payload.status
                      local == c.tasksData[Len(c.tasksData)].status
                  IN  mapTaskMasterStatusToDart(local)
                          = IF x \in DartStatuses THEN x ELSE "To-do"
        /\ (c.pc = "fetch" /\ c.message.update_type = "create")
               => LET y == c.message.payload.status
                      remote == Get(dartRequests[Len(dartRequests)].request.body,
                                    "status")
                  IN  y \in TaskMasterStatuses
                          => mapDartStatusToTaskMaster(remote) = y

\* C27 witness: a create envelope with the status 'Doing' has made a
\* record with the status 'in-progress'.
C27_Witness ==
    \E c \in inflight :
        /\ c.pc = "save"
        /\ c.message.update_type = "create"
        /\ c.message.payload.status = "Doing"
        /\ c.tasksData[Len(c.tasksData)].status = "in-progress"

----------------------------------------------------------------------------
(* Calls made while a request to the Dart API is pending *)

FetchPending == \E c \in inflight : c.pc = "fetch"

\* C28: while a request to the Dart API is pending, both tools can be
\* called, and a call of sendDartToTaskMaster that waits for its read or
\* its write of the file can go on; a step that settles another call
\* leaves the pending request pending.
C28_IntakeNotBlocked ==
    /\ []( FetchPending
           => /\ calls < MaxCalls
                  => /\ \A in \in IntakeDartCalls :
                            ENABLED sync_dart_to_taskmaster(in.task_id,
                                        in.update_type, in.payload)
                     /\ \A in \in IntakeTaskMasterCalls :
                            ENABLED sync_taskmaster_to_dart(in.task_id,
                                        in.update_type, in.payload)
              /\ \A c \in inflight :
                     /\ c.pc = "load" => ENABLED loadTaskMasterTasks(c, "ok")
                     /\ c.pc = "save" => ENABLED saveTaskMasterTasks(c, "ok") )
    /\ [][ \A c \in inflight :
               (c.pc = "fetch" /\ Settles /\ returned'.n # c.n) => c \in inflight' ]_vars

\* C28 witness: the request of the first call is still pending, and the
\* second call, a create from Dart, has written its record and returned
\* {success: true}.
C28_Witness ==
    /\ \E c \in inflight : c.n = 1 /\ c.pc = "fetch"
    /\ returned.n = 2
    /\ returned.entry = D2T
    /\ returned.message.update_type = "create"
    /\ returned.outcome = "success"
    /\ returned.writes = 1
    /\ \E i \in 1..Len(tasksFile.tasks) :
           tasksFile.tasks[i].metadata.dartId = returned.message.task_id

----------------------------------------------------------------------------
(* The source of an envelope and the entry point it is handed to *)

\* the entry point whose reducers belong to a source
EntryOf(source) == IF source = "Dart" THEN D2T ELSE T2D

\* C29: no read or write of the file and no request to the Dart API is
\* made for an envelope whose source is not that of the entry point: a
\* call that waits for I/O, and a call that has returned {success: true},
\* was made at the entry point of its envelope's source.
C29_ReducerMatchesSource ==
    /\ \A c \in inflight : c.entry = EntryOf(c.message.source)
    /\ returned.outcome = "success" => returned.entry = EntryOf(returned.message.source)

----------------------------------------------------------------------------
(* Duplicates and the order of eviction *)

\* C30: a call that is skipped as a duplicate leaves the cache as it is,
\* ids and order; an id that is dropped is the one at the head, which is
\* the id that was inserted before all others in the cache, whether or
\* not it was found again since; so when envelope 1, 2 or 1000 was sent
\* again to the full cache of envelopes 1 .. 1000 and envelope 1001 came
\* after it, the cache holds the ids of envelopes 2 .. 1001 in that order.
C30_HitKeepsOrder ==
    /\ [][ (CallsAndSettles /\ returned'.outcome = "skipped")
           => processedMessages' = processedMessages ]_vars
    /\ [][ (processedMessages' # processedMessages
                /\ Len(processedMessages') <= Len(processedMessages))
           => SubSeq(processedMessages', 1, Len(processedMessages') - 1)
                  = Tail(processedMessages) ]_vars
    /\ []( ( /\ now = CacheLimit + 2
             /\ calls = CacheLimit + 2
             /\ returned.n = calls
             /\ returned.message = CacheMessage(CacheLimit + 1) )
           => processedMessages =
                  [i \in 1..CacheLimit |-> messageId(CacheMessage(i + 1))] )

\* C30 witness: the full cache was hit by a duplicate, envelope 1001 came
\* after it and was not skipped, and the id of envelope 1 is gone.
C30_Witness ==
    /\ now = CacheLimit + 2
    /\ calls = CacheLimit + 2
    /\ returned.n = calls
    /\ returned.message = CacheMessage(CacheLimit + 1)
    /\ returned.outcome = "success"
    /\ Len(processedMessages) = CacheLimit
    /\ ~SetHas(processedMessages, messageId(CacheMessage(1)))
    /\ processedMessages[1] = messageId(CacheMessage(2))

----------------------------------------------------------------------------
(* Message ids of envelopes whose task_id or timestamp holds the '-' that   *)
(* the id is joined with: completions of tasks without a record and         *)
(* without a dartId are sent to their entry points one after the other.     *)

IdTaskIds == {"X1", "X1-2024", "X2"}

IdTimestamps == {"2024-01-01T00:00:01Z", "01-01T00:00:01Z"}

IdMessages ==
    {[source |-> source, task_id |-> task_id, update_type |-> "complete",
      timestamp |-> timestamp, payload |-> Unlinked] :
        source \in {"Dart", "TaskMaster"}, task_id \in IdTaskIds,
        timestamp \in IdTimestamps}

SendId(message) ==
    /\ calls < MaxCalls
    /\ Send(message)
    /\ UNCHANGED now

NextIds ==
    \/ \E message \in IdMessages : SendId(message)
    \/ \E c \in inflight : loadTaskMasterTasks(c, "ok")

SpecIds == InitCache /\ [][NextIds]_vars

\* C31: the second envelope that is sent is skipped as a duplicate only
\* when the first envelope has its source, its task_id and its timestamp.
C31_InjectiveFingerprint ==
    [][ (calls = 1 /\ CallsAndSettles /\ returned'.outcome = "skipped")
        => \E e1 \in KnownMessages : SameFingerprint(e1, returned'.message) ]_vars

----------------------------------------------------------------------------
(* Records and the Dart tasks they stand for *)

\* the metadata.dartId of a record, undefined when it has none
DartIdOf(task) == Get(MetadataOf(task), "dartId")

\* C32: no two records of the file have the same metadata.dartId.
C32_OneRecordPerDartId ==
    \A i, j \in 1..Len(tasksFile.tasks) :
        (i # j /\ Truthy(DartIdOf(tasksFile.tasks[i])))
            => DartIdOf(tasksFile.tasks[i]) # DartIdOf(tasksFile.tasks[j])

----------------------------------------------------------------------------
(* Poll cycles that overlap *)

\* The listener when a cycle takes longer than config.pollInterval: the
\* timer starts checkForChanges again while earlier runs still wait for
\* their readFile or their fetch.  TaskMaster adds tasks and renames them,
\* so that every rewrite of tasks.json yields a file it never held before.
NextOverlap ==
    \/ Tick
    \/ \E kind \in {"add", "rename"}, i \in 1..MaxTasks : LocalEdit(kind, i)
    \/ checkForChangesWithin(MaxOverlap)
    \/ \E i \in 1..Len(cycles), io \in IoResults : checkForChangesRead(i, io)
    \/ \E c \in inflight, status \in HttpStatuses : fetchSettles(c, status)

SpecOverlap == InitPoll /\ [][NextOverlap]_vars

\* the engine calls of the listener that went out to the Dart API: those
\* still waiting for their fetch and the one that settled last
Forwarded ==
    {[n |-> c.n, message |-> c.message] : c \in {d \in inflight : d.origin = "poll"}}
    \cup (IF returned.n > 0 /\ returned.entry = T2D /\ returned.outcome # "skipped"
          THEN {[n |-> returned.n, message |-> returned.message]}
          ELSE {})

\* C33: each local change is forwarded once, also when poll cycles
\* overlap: TaskMaster creates a task once and renames it once, so no two
\* envelopes that went out carry the same task id and update type.
C33_ForwardedOnce ==
    \A c, d \in Forwarded :
        (/\ c.message.task_id = d.message.task_id
         /\ c.message.update_type = d.message.update_type) => c.n = d.n

\* the number of rewrites after which tasks.json held these tasks, when
\* TaskMaster only adds tasks and renames them: every such rewrite adds one
\* record or one new title
Version(tasks) ==
    Len(tasks) + Cardinality({i \in 1..Len(tasks) : tasks[i].title = "Renamed"})

\* C34: the last-known snapshot never regresses: a cycle never replaces the
\* snapshot by one that was read from an older tasks.json.
C34_SnapshotNeverRegresses ==
    [][lastKnownTasks.known =>
           Version(lastKnownTasks'.tasks) >= Version(lastKnownTasks.tasks)]_vars

----------------------------------------------------------------------------
(* Changes that cannot be forwarded *)

\* change is passed over without a request: processChange returns before it
\* builds a message, or the connector knows the message id
PassedOver(change) ==
    \/ processChangeSkips(change)
    \/ SetHas(processedMessages, messageId(processChangeMessage(change, now)))

\* the cycle cy, waiting for a fetch, is done with it in this step
FetchOf(cy) == \E c \in inflight : c.n = cy.awaiting /\ c \notin inflight'

\* C35: an error while one change is forwarded stays with that change.
\* When the fetch a cycle waits for has settled, with whatever answer, the
\* cycle goes on with the first of its remaining changes that is to be
\* sent, and when none is left it ends and stores the snapshot it read, so
\* that no later cycle detects its changes again.
C35_ErrorContained ==
    [][\A i \in 1..Len(cycles) :
           (cycles[i].pc = "send" /\ FetchOf(cycles[i])) =>
               LET cy == cycles[i]
               IN  \/ \E k \in 1..Len(cy.rest), c \in inflight' \ inflight :
                          /\ \A j \in 1..(k - 1) : PassedOver(cy.rest[j])
                          /\ ~processChangeSkips(cy.rest[k])
                          /\ c.message.task_id = ToString(cy.rest[k].task.id)
                          /\ c.message.update_type = cy.rest[k].type
                          /\ cycles' = [cycles EXCEPT ![i] =
                                            [cy EXCEPT !.awaiting = c.n,
                                                       !.rest = SubSeq(cy.rest, k + 1,
                                                                       Len(cy.rest))]]
                          /\ lastKnownTasks' = lastKnownTasks
                   \/ /\ \A j \in 1..Len(cy.rest) : PassedOver(cy.rest[j])
                      /\ inflight' \subseteq inflight
                      /\ cycles' = RemoveAt(cycles, i)
                      /\ lastKnownTasks' = [known |-> TRUE, tasks |-> cy.currentTasks]
      ]_vars

\* a cycle found two new tasks; the request for the first failed, the
\* request for the second is under way, and the snapshot is still the old
\* one
C35_Witness ==
    /\ lastKnownTasks = [known |-> TRUE, tasks |-> <<>>]
    /\ returned.n = 1
    /\ returned.outcome = "thrown"
    /\ returned.message.task_id = "1"
    /\ \E c \in inflight : c.n = 2 /\ c.origin = "poll" /\ c.message.task_id = "2"
    /\ Len(cycles) = 1

----------------------------------------------------------------------------
(* The first read of tasks.json *)

\* message announces as new the task that came from Dart as X1, which
\* tasks.json holds from the start and TaskMaster never adds
CreatesX1(message) ==
    /\ message.update_type = "create"
    /\ Has(message.payload, "metadata")
    /\ Get(message.payload.metadata, "dartId") = "X1"

\* C36: the first cycle that reads tasks.json only records what it read:
\* while the listener holds no snapshot it has detected nothing and sent
\* nothing, the step that stores the first snapshot stores the file as it
\* is and does nothing else, a later cycle reports as created only tasks
\* that its snapshot does not hold, and the task that was in the file from
\* the start is never sent as a create.
C36_FirstCycleRecords ==
    /\ [](~lastKnownTasks.known =>
              calls = 0 /\ dartRequests = <<>> /\ inflight = {} /\ ~detected.ran)
    /\ [][(~lastKnownTasks.known /\ lastKnownTasks'.known) =>
              /\ lastKnownTasks'.tasks = tasksFile.tasks
              /\ UNCHANGED <<processedMessages, tasksFile, inflight, returned,
                             calls, dartRequests, detected>>]_vars
    /\ [][detected' # detected =>
              \A ch \in Range(detected'.changes) :
                  ch.type = "create" => ch.task.id \notin IdsOf(lastKnownTasks.tasks)]_vars
    /\ [](\A c \in inflight : ~CreatesX1(c.message))
    /\ [](returned.n > 0 => ~CreatesX1(returned.message))

\* the first cycle stored a file with two tasks, a later cycle compared the
\* file with that snapshot, and nothing has been sent
C36_Witness ==
    /\ lastKnownTasks = [known |-> TRUE, tasks |-> <<DartTask(1, "X1"), LocalTask(2)>>]
    /\ detected.ran
    /\ detected.oldTasks = lastKnownTasks.tasks
    /\ detected.changes = <<>>
    /\ calls = 0
    /\ dartRequests = <<>>

----------------------------------------------------------------------------
(* Stopping the integration *)

\* stop() of index.js up to the await of stopMCPServer: the listener's stop
\* clears the timer, the webhook server is closed, and both handles are
\* set to null
stop ==
    /\ services.stops < MaxStops
    /\ services' =
           [services EXCEPT
               !.intervalId = IF services.taskMasterListener # Null THEN "cleared" ELSE @,
               !.taskMasterListener = Null,
               !.webhookServer = Null,
               !.stops = @ + 1,
               !.closing = IF services.mcpServer # Null THEN @ + 1 ELSE @,
               !.returned = IF services.mcpServer # Null THEN @ ELSE @ + 1]
    /\ UNCHANGED <<processedMessages, tasksFile, inflight, returned, calls, now,
                   dartRequests, lastKnownTasks, cycles, dartApplied, detected, edits,
                   env, webhook, shownConfig>>

\* server.close() of stopMCPServer settles: stop() sets the handle to null
\* and returns, or stopMCPServer throws and stop() with it
stopMCPServer(io) ==
    /\ services.closing > 0
    /\ services' =
           IF io = "ok"
           THEN [services EXCEPT !.mcpServer = Null, !.closing = @ - 1,
                                 !.returned = @ + 1]
           ELSE [services EXCEPT !.closing = @ - 1]
    /\ UNCHANGED <<processedMessages, tasksFile, inflight, returned, calls, now,
                   dartRequests, lastKnownTasks, cycles, dartApplied, detected, edits,
                   env, webhook, shownConfig>>

\* the stop of the handle that startTaskMasterListener returned
taskMasterListenerStop ==
    /\ services.intervalId = "set"
    /\ services' = [services EXCEPT !.intervalId = "cleared"]
    /\ UNCHANGED <<processedMessages, tasksFile, inflight, returned, calls, now,
                   dartRequests, lastKnownTasks, cycles, dartApplied, detected, edits,
                   env, webhook, shownConfig>>

\* The listener polls tasks.json while TaskMaster adds tasks, and the
\* integration is stopped at any moment.
NextStop ==
    \/ \E i \in 1..MaxTasks : LocalEdit("add", i)
    \/ checkForChanges
    \/ \E i \in 1..Len(cycles), io \in IoResults : checkForChangesRead(i, io)
    \/ \E c \in inflight, status \in HttpStatuses : fetchSettles(c, status)
    \/ stop
    \/ \E io \in IoResults : stopMCPServer(io)
    \/ taskMasterListenerStop

SpecStop == InitPoll /\ [][NextStop]_vars

\* a stop() call has returned, or the listener's own stop has
Stopped == services.returned > 0 \/ services.intervalId = "cleared"

\* C37: once stop() or the listener's stop has returned, the listener
\* hands no further envelope to the connector; once stop() has returned
\* the three handles are null, and another stop() changes nothing but the
\* count of the calls made.
C37_StopIsFinal ==
    /\ [][Stopped => calls' = calls /\ dartRequests' = dartRequests]_vars
    /\ [](services.returned > 0 =>
              /\ services.taskMasterListener = Null
              /\ services.webhookServer = Null
              /\ services.mcpServer = Null)
    /\ [][(services.returned > 0 /\ services.closing = 0
              /\ services'.stops > services.stops) =>
              services' = [services EXCEPT !.stops = @ + 1, !.returned = @ + 1]]_vars

----------------------------------------------------------------------------
(* The webhook server *)

\* the placeholder that stands for the check of the x-dart-signature header
validateSignature(payload, signature, secret) == TRUE

\* the middleware of POST /webhook: the status it answers with, or 0 when
\* it calls next()
validateWebhook(e, signature, body) ==
    IF ~Truthy(e.DART_WEBHOOK_SECRET) THEN 0
    ELSE IF ~Truthy(signature) THEN 401
    ELSE IF ~validateSignature(body, signature, e.DART_WEBHOOK_SECRET) THEN 401
    ELSE 0

\* the envelopes of processTaskCreated, processTaskUpdated,
\* processTaskCompleted and processTaskDeleted
webhookMessage(update_type, task, t) ==
    LET dartId == [dartId |-> task.id]
        fields == Spread(Spread(Spread(
                      Field("status", Get(task, "status")),
                      Field("title", Get(task, "title"))),
                      Field("description", Get(task, "description"))),
                      Field("priority", Get(task, "priority")))
        payload ==
            CASE update_type = "create" ->
                     Spread(fields, [metadata |-> Spread(Spread(Spread(dartId,
                         Field("dartUrl", Get(task, "url"))),
                         Field("dartCreatedAt", Get(task, "created_at"))),
                         Field("dartUpdatedAt", Get(task, "updated_at")))])
              [] update_type = "update" ->
                     Spread(fields, [metadata |-> Spread(Spread(dartId,
                         Field("dartUrl", Get(task, "url"))),
                         Field("dartUpdatedAt", Get(task, "updated_at")))])
              [] update_type = "complete" ->
                     [status |-> "Done",
                      metadata |-> Spread(dartId,
                          [dartCompletedAt |-> OrElse(Get(task, "completed_at"),
                                                      toISOString(t))])]
              [] OTHER ->
                     Spread(Field("status", Get(task, "status")), [metadata |-> dartId])
    IN  [source |-> "Dart", task_id |-> task.id, update_type |-> update_type,
         timestamp |-> toISOString(t), payload |-> payload]

EventTypes ==
    [x \in {"task.created", "task.updated", "task.completed", "task.deleted"} |->
        CASE x = "task.created" -> "create"
          [] x = "task.updated" -> "update"
          [] x = "task.completed" -> "complete"
          [] OTHER -> "delete"]

\* processWebhook up to the call of the connector: it throws, it ignores
\* the event, or it has an envelope to send; the task is webhook.data ||
\* webhook.task, and the bodies posted hold an object there or nothing
processWebhook(body, t) ==
    LET eventType == OrElse(Get(body, "event"), Get(body, "type"))
        hasTask == Has(body, "data") \/ Has(body, "task")
        task == IF Has(body, "data") THEN body.data ELSE body.task
    IN  IF ~Truthy(eventType)
        THEN [throws |-> TRUE, ignored |-> FALSE, message |-> NoFields]
        ELSE IF eventType \notin DOMAIN EventTypes
        THEN [throws |-> FALSE, ignored |-> TRUE, message |-> NoFields]
        ELSE IF ~hasTask \/ ~Truthy(Get(task, "id"))
        THEN [throws |-> TRUE, ignored |-> FALSE, message |-> NoFields]
        ELSE [throws |-> FALSE, ignored |-> FALSE,
              message |-> webhookMessage(EventTypes[eventType], task, t)]

\* POST /webhook with the header x-dart-signature (or without it), up to
\* the answer of the route or the first await of the connector
postWebhook(signature, body) ==
    LET status == validateWebhook(env, signature, body)
        w == processWebhook(body, now)
        st == sendDartToTaskMaster(EngineState, w.message, "webhook")
    IN  /\ services.webhookServer # Null
        /\ calls < MaxCalls
        /\ IF status # 0 \/ w.throws \/ w.ignored
           THEN /\ webhook' = [signature |-> signature, call |-> 0,
                               status |-> IF status # 0 THEN status
                                          ELSE IF w.throws THEN 500 ELSE 200]
                /\ UNCHANGED <<processedMessages, inflight, returned, calls,
                               dartRequests>>
           ELSE /\ Settle(st)
                /\ inflight' = IF st.pending THEN inflight \cup {st.call} ELSE inflight
                /\ webhook' = [signature |-> signature, call |-> st.calls,
                               status |-> IF st.pending THEN 0
                                          ELSE IF st.returned.outcome = "thrown"
                                          THEN 500 ELSE 200]
        /\ UNCHANGED <<tasksFile, now, lastKnownTasks, cycles, dartApplied, detected,
                       edits, env, services, shownConfig>>

\* the header of a request: none, the signature Dart computes from the body
\* and the secret, and one that somebody else made up
Signatures == {Undefined, "sha256=signed", "sha256=forged"}

WebhookTask == [id |-> "X2", status |-> "To-do", title |-> "Demo"]

WebhookBodies ==
    {[event |-> "task.created", data |-> WebhookTask],
     [type |-> "task.deleted", task |-> DartTask("X1", "X1")],
     [event |-> "task.completed", data |-> [id |-> "X1"]],
     [event |-> "task.archived", data |-> WebhookTask],
     [data |-> WebhookTask],
     [event |-> "task.updated"]}

InitWebhook ==
    /\ processedMessages = <<>>
    /\ tasksFile = [exists |-> TRUE, tasks |-> <<DartTask(1, "X1"), LocalTask(2)>>]
    /\ inflight = {}
    /\ returned = NoReturn
    /\ calls = 0
    /\ now = 1
    /\ dartRequests = <<>>
    /\ lastKnownTasks = [known |-> FALSE, tasks |-> <<>>]
    /\ cycles = <<>>
    /\ dartApplied = {}
    /\ detected = NoneDetected
    /\ edits = 0
    /\ env \in {Environment, [Environment EXCEPT !.DART_WEBHOOK_SECRET = "s3cret"]}
    /\ InitHost

\* Dart, or somebody else, posts to the webhook server.
NextWebhook ==
    \/ Tick
    \/ \E signature \in Signatures, body \in WebhookBodies : postWebhook(signature, body)
    \/ \E c \in inflight, io \in IoResults : loadTaskMasterTasks(c, io)
    \/ \E c \in inflight, io \in IoResults : saveTaskMasterTasks(c, io)

SpecWebhook == InitWebhook /\ [][NextWebhook]_vars

\* the signature is the one Dart computes
Signed(signature) == signature = "sha256=signed"

\* a request arrives in this step
Posted == webhook'.signature # webhook.signature \/ webhook'.call # webhook.call
              \/ (webhook = NoWebhook /\ webhook' # NoWebhook)

\* C38: with a webhook secret configured, a request without the header or
\* with a signature that is not Dart's is answered 401 and reaches neither
\* the connector nor the store.
C38_UnsignedRejected ==
    /\ []((Truthy(env.DART_WEBHOOK_SECRET) /\ webhook # NoWebhook
              /\ ~Signed(webhook.signature))
             => webhook.status = 401 /\ webhook.call = 0)
    /\ [][(Truthy(env.DART_WEBHOOK_SECRET) /\ Posted /\ ~Signed(webhook'.signature))
             => UNCHANGED <<processedMessages, tasksFile, inflight, returned, calls>>]_vars

----------------------------------------------------------------------------
(* get_config *)

ApiKeys == {Undefined, "", "key-1", "key-2"}

Environments ==
    {[DART_API_KEY |-> key, DART_API_URL |-> url, TASKS_PATH |-> path,
      LOG_LEVEL |-> level, DART_WEBHOOK_SECRET |-> secret] :
        key \in ApiKeys, url \in {Undefined, "https://dart.test/api"},
        path \in {Undefined, "/srv/tasks.json"}, level \in {Undefined, "debug"},
        secret \in {Undefined, "s3cret"}}

InitConfig ==
    /\ processedMessages = <<>>
    /\ tasksFile = [exists |-> TRUE, tasks |-> <<>>]
    /\ inflight = {}
    /\ returned = NoReturn
    /\ calls = 0
    /\ now = 1
    /\ dartRequests = <<>>
    /\ lastKnownTasks = [known |-> FALSE, tasks |-> <<>>]
    /\ cycles = <<>>
    /\ dartApplied = {}
    /\ detected = NoneDetected
    /\ edits = 0
    /\ env \in Environments
    /\ InitHost

\* a call of the tool get_config
get_config ==
    /\ services.mcpServer # Null
    /\ shownConfig' = getConfigHandler(env)
    /\ UNCHANGED <<processedMessages, tasksFile, inflight, returned, calls, now,
                   dartRequests, lastKnownTasks, cycles, dartApplied, detected, edits,
                   env, services, webhook>>

NextConfig == get_config

SpecConfig == InitConfig /\ [][NextConfig]_vars

\* the value is a key that is set
IsKey(v) == v \notin {Undefined, ""}

\* C39: get_config never reveals the API key: with a key set, it answers
\* what it would answer under any other key, and shows '***' in its place.
C39_KeyMasked ==
    (Has(shownConfig, "config") /\ IsKey(env.DART_API_KEY)) =>
        /\ shownConfig.config.dart.apiKey = "***"
        /\ \A key \in {k \in ApiKeys : IsKey(k)} :
               getConfigHandler([env EXCEPT !.DART_API_KEY = key]) = shownConfig

\* get_config has answered in a process whose key is key-2 and whose other
\* settings come from the environment
C39_Witness ==
    /\ Has(shownConfig, "config")
    /\ env.DART_API_KEY = "key-2"
    /\ env.DART_API_URL = "https://dart.test/api"
    /\ shownConfig.config.dart.baseUrl = "https://dart.test/api"
    /\ shownConfig.config.dart.apiKey = "***"

====
